---- MODULE Spec2Model ----
(***************************************************************************)
(* Model of gobananas' resumable batch engine: ProgressTracker (the        *)
(* file-backed progress record), parseApiError / isRetryable (the error    *)
(* classifier and the retry decision), ImageGenerator.generateImage (one   *)
(* request with retries) and ImageGenerator.generateBatch (the batch       *)
(* orchestrator).  Node is single threaded: each action is one run of      *)
(* synchronous code between two awaits.                                    *)
(*                                                                         *)
(* A raw error message is modelled by the set of classifier keywords its   *)
(* lower-cased text contains (no keyword is a substring of another, so     *)
(* every set of keywords is the keyword set of some message).              *)
(***************************************************************************)
EXTENDS Integers, Sequences, FiniteSets, TLC

VARIABLES
  progress,      \* ProgressTracker.progress: the in-memory record
  disk,          \* the .progress.json file of the output directory
  fsWritable,    \* environment: whether writing the progress file succeeds
  cbThrows,      \* environment: whether the caller's callbacks may throw
  phase,         \* generateBatch: idle, collecting, running, returned, raised
  images,        \* generateBatch: the input list of this run (request ids)
  opts,          \* generateBatch: the options of this run
  remaining,     \* generateBatch: remaining, as computed at the start of the run
  collectIdx,    \* generateBatch: index of the request whose references are awaited
  chunkIndex,    \* generateBatch: 1-based index of the group being awaited
  req,           \* per remaining request: state of its promise / generateImage
  results,       \* generateBatch: the summary under construction
  runs,          \* number of generateBatch calls so far
  restarts,      \* number of process restarts so far
  everCompleted, \* history: ids for which markCompleted ran since the last clear
  histFailed,    \* history: number of markFailed calls per id since the last clear
  doneBefore,    \* history: everCompleted when the current run computed remaining
  failsBefore,   \* history: histFailed when the current run computed remaining
  seen,          \* what the tracker answered when the run was called (entry*)
                 \* and when it computed remaining (completed, attempts)
  imageRefMap,   \* generateBatch: the references collected so far, by request id
  collectorCalls,\* history: number of getReferenceImages calls per id in this run
  probe          \* the last call of the exported API made on its own, and its result

vars == <<progress, disk, fsWritable, cbThrows, phase, images, opts, remaining,
          collectIdx, chunkIndex, req, results, runs, restarts, everCompleted,
          histFailed, doneBefore, failsBefore, seen, imageRefMap, collectorCalls,
          probe>>

----------------------------------------------------------------------------
(* Bounds of the model *)

MaxRuns == 2
MaxRunsCb == 1
MaxRestarts == 1
MaxConcurrency == 2
MaxK == 4
MaxAttempts == 3
MaxWords == 3
MaxCalls == 5
MaxChars == 5
MaxRunsWatched == 5
MaxLen == 4
MaxSize == 5
MaxIter == 4
MaxCallsTwo == 3

Ids == {"a", "b", "c"}

\* The request lists handed to generateBatch.
InputLists == {<<"a", "b", "c">>}

\* The request lists getRemaining is evaluated on.
RequestLists ==
  {<<>>} \cup {<<x>> : x \in Ids} \cup {<<x, y>> : x, y \in Ids}
         \cup {<<"a", "b", "c">>, <<"c", "a", "b">>, <<"b", "c", "a">>}

----------------------------------------------------------------------------
(* Program constants *)

RETRY_DELAYS == <<1000, 2000, 4000>>

\* RETRY_DELAYS[attempt - 1] as generateImage hands it to sleep: an index
\* beyond the array gives undefined, which setTimeout takes as no delay
delayBefore(attempt) ==
  IF attempt \in DOMAIN RETRY_DELAYS THEN RETRY_DELAYS[attempt] ELSE 0
DefaultMaxRetries == 3

----------------------------------------------------------------------------
(* errors.js: parseApiError, and ImageGenerator.isRetryable *)

Keywords ==
  {"api key", "401", "unauthorized", "rate limit", "429", "quota", "safety",
   "blocked", "harmful", "invalid", "400", "503", "500", "server", "timeout",
   "timed out", "temporarily"}

\* message.includes(k) for some k of ks
includesAny(message, ks) == message \cap ks # {}

\* Mutant: the rate-limit rule is tried before the authentication rule.
parseApiErrorRateFirst(message) ==
  IF includesAny(message, {"rate limit", "429", "quota"}) THEN "RateLimitError"
  ELSE IF includesAny(message, {"api key", "401", "unauthorized"}) THEN "AuthError"
  ELSE IF includesAny(message, {"safety", "blocked", "harmful"}) THEN "ContentSafetyError"
  ELSE IF includesAny(message, {"invalid", "400"}) THEN "MalformedRequestError"
  ELSE IF includesAny(message, {"503", "500", "server"}) THEN "TransientServerError"
  ELSE IF includesAny(message, {"timeout", "timed out"}) THEN "TimeoutError"
  ELSE "UnknownGenerationError"

parseApiError(message) ==
  IF includesAny(message, {"api key", "401", "unauthorized"}) THEN "AuthError"
  ELSE IF includesAny(message, {"rate limit", "429", "quota"}) THEN "RateLimitError"
  ELSE IF includesAny(message, {"safety", "blocked", "harmful"}) THEN "ContentSafetyError"
  ELSE IF includesAny(message, {"invalid", "400"}) THEN "MalformedRequestError"
  ELSE IF includesAny(message, {"503", "500", "server"}) THEN "TransientServerError"
  ELSE IF includesAny(message, {"timeout", "timed out"}) THEN "TimeoutError"
  ELSE "UnknownGenerationError"

\* Mutant: no error is taken for retryable.
isRetryableNever(message) == FALSE

isRetryable(message) ==
  includesAny(message, {"rate limit", "429", "503", "timeout", "temporarily"})

(* err.message as parseApiError receives it: a sequence of words, a word    *)
(* being a keyword in lower case, a keyword with capitals, or a word no     *)
(* rule looks for.  The empty sequence is the empty message.                *)

CapitalWords == {"QUOTA", "Unauthorized", "Timed Out"}

OtherWords == {"exceeded", "boom"}

RawWords == Keywords \cup CapitalWords \cup OtherWords

RawMessages == UNION {[1..n -> RawWords] : n \in 0..MaxWords}

\* String.prototype.toLowerCase, word by word
toLowerCase(raw) ==
  [i \in 1..Len(raw) |->
     CASE raw[i] = "QUOTA" -> "quota"
       [] raw[i] = "Unauthorized" -> "unauthorized"
       [] raw[i] = "Timed Out" -> "timed out"
       [] OTHER -> raw[i]]

\* The keywords message.includes finds in a message.
keywordsIn(message) == {message[i] : i \in 1..Len(message)} \cap Keywords

\* The error parseApiError(err) returns for err.message = raw: its class and
\* its message.
parsedError(raw) ==
  LET message == keywordsIn(toLowerCase(raw))
      class == parseApiError(message)
  IN [class |-> class,
      message |->
        CASE class = "AuthError" -> <<"Invalid or expired API key">>
          [] class = "RateLimitError" -> <<"API rate limit exceeded">>
          [] class = "ContentSafetyError" -> <<"Content was blocked by safety filters">>
          [] class = "MalformedRequestError" -> <<"Invalid request:">> \o raw
          [] class = "TransientServerError" -> <<"Google API server error">>
          [] class = "TimeoutError" -> <<"Request timed out">>
          [] OTHER -> IF raw # <<>> THEN raw ELSE <<"Unknown error occurred">>]

----------------------------------------------------------------------------
(* prompt-builder.js: normalizeAspectRatio.  A string is the sequence of   *)
(* its characters.                                                         *)

supported ==
  << <<"1", ":", "1">>, <<"1", "6", ":", "9">>, <<"2", "1", ":", "9">>,
     <<"4", ":", "5">>, <<"5", ":", "4">>, <<"2", ":", "3">>, <<"3", ":", "2">>,
     <<"3", ":", "4">>, <<"4", ":", "3">>, <<"9", ":", "1", "6">> >>

\* the characters /\s/ matches
Whitespace == {" ", "\t"}

\* aspectRatio.replace(/\s/g, '')
removeWhitespace(str) == SelectSeq(str, LAMBDA ch : ch \notin Whitespace)

\* supported.includes(str)
includes(array, str) == \E i \in 1..Len(array) : array[i] = str

\* Mutant: the input is looked up without removing its whitespace.
normalizeAspectRatioAsIs(aspectRatio) ==
  IF includes(supported, aspectRatio) THEN aspectRatio ELSE <<"1", "6", ":", "9">>

normalizeAspectRatio(aspectRatio) ==
  LET normalized == removeWhitespace(aspectRatio)
  IN IF includes(supported, normalized) THEN normalized ELSE <<"1", "6", ":", "9">>

\* The strings normalizeAspectRatio is called with: every string of up to
\* MaxChars of these characters, and every supported ratio bare and with
\* whitespace before, inside and after it.
RatioChars == {"1", "6", "9", ":", " ", "\t", "x"}

RatioStrings ==
  UNION {[1..n -> RatioChars] : n \in 0..MaxChars}
    \cup {supported[i] : i \in 1..Len(supported)}
    \cup {<<" ">> \o supported[i] : i \in 1..Len(supported)}
    \cup {<<Head(supported[i]), "\t">> \o Tail(supported[i]) \o <<" ">> :
            i \in 1..Len(supported)}

----------------------------------------------------------------------------
(* prompt-builder.js: formatStyleGuide.  An object is a record that has    *)
(* the fields it was written with; a string is a sequence of pieces (the   *)
(* literal parts of the templates and the strings of the style guide); the *)
(* empty JavaScript string inside an object is "".                         *)

has(obj, field) == field \in DOMAIN obj

\* array?.length as a condition
nonEmpty(obj, field) == has(obj, field) /\ Len(obj[field]) > 0

\* a string field as a condition
truthy(obj, field) == has(obj, field) /\ obj[field] # ""

\* Array.prototype.join of strings that are single pieces
RECURSIVE join(_, _)
join(array, separator) ==
  IF array = <<>> THEN <<>>
  ELSE IF Len(array) = 1 THEN <<array[1]>>
  ELSE <<array[1], separator>> \o join(Tail(array), separator)

\* Array.prototype.join of strings of several pieces
RECURSIVE joinAll(_, _)
joinAll(array, separator) ==
  IF array = <<>> THEN <<>>
  ELSE IF Len(array) = 1 THEN array[1]
  ELSE array[1] \o <<separator>> \o joinAll(Tail(array), separator)

\* if (condition) array.push(line)
pushIf(condition, line) == IF condition THEN <<line>> ELSE <<>>

paletteLine(palette, field, label) ==
  pushIf(nonEmpty(palette, field), <<label>> \o join(IF has(palette, field)
                                                     THEN palette[field] ELSE <<>>, ", "))

uiPart(ui, field, label) ==
  pushIf(truthy(ui, field), <<label, IF has(ui, field) THEN ui[field] ELSE "">>)

listSection(sg, field, label, separator) ==
  pushIf(nonEmpty(sg, field), <<label>> \o join(IF has(sg, field)
                                                THEN sg[field] ELSE <<>>, separator))

\* The body of formatStyleGuide once sg is chosen.
formatSections(sg) ==
  LET colors ==
        IF has(sg, "palette")
        THEN paletteLine(sg.palette, "background", "Background: ")
               \o paletteLine(sg.palette, "primary_accents", "Primary accents: ")
               \o paletteLine(sg.palette, "secondary_accents", "Secondary accents: ")
               \o paletteLine(sg.palette, "neutrals", "Neutrals: ")
        ELSE <<>>
      uiParts ==
        IF has(sg, "ui_style")
        THEN uiPart(sg.ui_style, "mode", "Mode: ")
               \o uiPart(sg.ui_style, "shapes", "Shapes: ")
               \o uiPart(sg.ui_style, "charts", "Charts: ")
               \o uiPart(sg.ui_style, "icons", "Icons: ")
        ELSE <<>>
      sections ==
        listSection(sg, "brand_keywords", "Style Keywords: ", ", ")
          \o pushIf(Len(colors) > 0, <<"Color Palette:\n">> \o joinAll(colors, "\n"))
          \o pushIf(Len(uiParts) > 0, <<"UI Style:\n">> \o joinAll(uiParts, "\n"))
          \o listSection(sg, "typography_feel", "Typography: ", ", ")
          \o listSection(sg, "visual_motifs", "Visual Motifs: ", "; ")
          \o listSection(sg, "avoid", "AVOID: ", "; ")
  IN joinAll(sections, "\n\n")

\* Mutant: the style_guide wrapper is not looked into.
formatStyleGuideDirect(styleGuide) == formatSections(styleGuide)

formatStyleGuide(styleGuide) ==
  formatSections(IF has(styleGuide, "style_guide") THEN styleGuide.style_guide
                 ELSE styleGuide)

\* The style guides formatStyleGuide is called with: each field absent, empty,
\* filled with content that gives no line, or filled.
GuideFields ==
  {"brand_keywords", "palette", "ui_style", "typography_feel", "visual_motifs", "avoid"}

Fillings == {"absent", "empty", "blank", "filled"}

EmptyObject == [field \in {} |-> ""]

fieldValue(field, filling) ==
  IF field = "palette"
  THEN CASE filling = "empty" -> EmptyObject
         [] filling = "blank" -> [background |-> <<>>]
         [] OTHER -> [background |-> <<"white", "grey">>, secondary_accents |-> <<>>,
                      neutrals |-> <<"black">>]
  ELSE IF field = "ui_style"
  THEN CASE filling = "empty" -> EmptyObject
         [] filling = "blank" -> [mode |-> ""]
         [] OTHER -> [mode |-> "dark", shapes |-> "", icons |-> "flat"]
  ELSE CASE filling = "empty" -> <<>>
         [] filling = "blank" -> <<>>
         [] OTHER -> IF field = "avoid" THEN <<"clutter">> ELSE <<"bold", "calm">>

guideOf(fillings) ==
  [field \in {f \in GuideFields : fillings[f] # "absent"} |->
     fieldValue(field, fillings[field])]

StyleGuides == {guideOf(fillings) : fillings \in [GuideFields -> Fillings]}

----------------------------------------------------------------------------
(* progress-tracker.js: ProgressTracker.  A tracker state t is the pair    *)
(* [progress, disk] of the in-memory record and the durable file.          *)

\* The record load() and clear() create; startedAt is the time of creation
EmptyProgress == [completed |-> <<>>, failed |-> <<>>, startedAt |-> "now"]
\* What JSON.parse returns for a file that holds JSON but not a progress
\* record: an object with neither completed nor failed.
OtherJson == [startedAt |-> 0]

\* this.progress has the arrays the methods read
isRecord(p) == {"completed", "failed"} \subseteq DOMAIN p

\* The progress file: form "record" is the JSON of the record data, "json" is
\* JSON of another value, "garbage" is not JSON, "unreadable" cannot be read.
NoFile == [exists |-> FALSE, form |-> "record", data |-> EmptyProgress]

\* Mutant: the file is never read back.
loadFresh(d) == EmptyProgress

load(d) ==
  IF ~d.exists THEN EmptyProgress
  ELSE IF d.form = "record" THEN d.data
  ELSE IF d.form = "json" THEN OtherJson
  ELSE EmptyProgress

\* Mutant: only the completed ids are written.
saveCompletedOnly(t) ==
  IF fsWritable
  THEN [t EXCEPT !.disk = [exists |-> TRUE, form |-> "record",
                           data |-> [t.progress EXCEPT !.failed = <<>>]]]
  ELSE t

\* Mutant: the write is deferred and never flushed.
saveNothing(t) == t

save(t) ==
  IF fsWritable
  THEN [t EXCEPT !.disk = [exists |-> TRUE, form |-> "record", data |-> t.progress]]
  ELSE t

isCompleted(p, imageId) ==
  \E i \in 1..Len(p.completed) : p.completed[i] = imageId

\* Mutant: the id is appended without looking for it first.
markCompletedAlways(t, imageId) ==
  save([t EXCEPT !.progress.completed = Append(@, imageId)])

\* Mutant: the id is pushed only once the write went through.
markCompletedIfSaved(t, imageId) ==
  IF ~isCompleted(t.progress, imageId) /\ fsWritable
  THEN save([t EXCEPT !.progress.completed = Append(@, imageId)])
  ELSE t

\* Mutant: the record is stamped again when an id is pushed.
markCompletedRestamps(t, imageId) ==
  IF ~isCompleted(t.progress, imageId)
  THEN save([t EXCEPT !.progress.completed = Append(@, imageId),
                      !.progress.startedAt = "now"])
  ELSE t

markCompleted(t, imageId) ==
  IF ~isCompleted(t.progress, imageId)
  THEN save([t EXCEPT !.progress.completed = Append(@, imageId)])
  ELSE t

\* Array.prototype.find on progress.failed: index of the first record of imageId, or 0
findFailed(p, imageId) ==
  LET hits == {i \in 1..Len(p.failed) : p.failed[i].id = imageId}
  IN IF hits = {} THEN 0 ELSE CHOOSE i \in hits : \A j \in hits : i <= j

\* Mutant: the failed array is replaced by the new record (a lost update).
markFailedReplaces(t, imageId, error) ==
  LET existing == findFailed(t.progress, imageId)
  IN save([t EXCEPT !.progress.failed =
             <<[id |-> imageId,
                attempts |-> IF existing # 0 THEN @[existing].attempts + 1 ELSE 1,
                lastError |-> error]>>])

\* Mutant: every failure pushes a new record.
markFailedAlwaysAppends(t, imageId, error) ==
  save([t EXCEPT !.progress.failed =
          Append(@, [id |-> imageId, attempts |-> 1, lastError |-> error])])

markFailed(t, imageId, error) ==
  LET existing == findFailed(t.progress, imageId)
  IN save(IF existing # 0
          THEN [t EXCEPT !.progress.failed[existing] =
                  [@ EXCEPT !.attempts = @ + 1, !.lastError = error]]
          ELSE [t EXCEPT !.progress.failed =
                  Append(@, [id |-> imageId, attempts |-> 1, lastError |-> error])])

getFailedAttempts(p, imageId) ==
  LET record == findFailed(p, imageId)
  IN IF record = 0 THEN 0 ELSE p.failed[record].attempts

\* Mutant: completed requests are not filtered out.
getRemainingIgnoresCompleted(p, allImages, maxRetries) ==
  SelectSeq(allImages,
            LAMBDA img : IF getFailedAttempts(p, img) >= maxRetries THEN FALSE
                         ELSE TRUE)

\* Mutant: a request is dropped only after more than maxRetries failures.
getRemainingOffByOne(p, allImages, maxRetries) ==
  SelectSeq(allImages,
            LAMBDA img : IF isCompleted(p, img) THEN FALSE
                         ELSE IF getFailedAttempts(p, img) > maxRetries THEN FALSE
                         ELSE TRUE)

getRemaining(p, allImages, maxRetries) ==
  SelectSeq(allImages,
            LAMBDA img : IF isCompleted(p, img) THEN FALSE
                         ELSE IF getFailedAttempts(p, img) >= maxRetries THEN FALSE
                         ELSE TRUE)

\* Mutant: the file is removed but the in-memory record is kept.
clearFileOnly(t) == [t EXCEPT !.disk = IF @.exists THEN NoFile ELSE @]

\* Mutant: the default of maxRetries is 1.
getRemainingDefaultOne(p, allImages) == getRemaining(p, allImages, 1)

\* Mutant: the default of maxRetries is 4.
getRemainingDefaultFour(p, allImages) == getRemaining(p, allImages, 4)

\* getRemaining(allImages): maxRetries = 3 by default
getRemainingDefault(p, allImages) == getRemaining(p, allImages, DefaultMaxRetries)

\* Mutant: the in-memory record is reset but the file is left in place.
clearKeepsFile(t) == [t EXCEPT !.progress = EmptyProgress]

clear(t) ==
  [t EXCEPT !.progress = EmptyProgress,
            !.disk = IF @.exists THEN NoFile ELSE @]

getStats(p) ==
  [completed |-> Len(p.completed), failed |-> Len(p.failed), startedAt |-> p.startedAt]

----------------------------------------------------------------------------
(* generator.js: the remote call and ImageGenerator.processResponse.       *)
(* An outcome of ai.models.generateContent is [kind, msg]: kind "error" is *)
(* a rejection with raw message msg; "image" a response with an image      *)
(* part; "text" a response whose first text part has the words msg;        *)
(* "empty" a response with parts but neither image nor text; "invalid" a   *)
(* response without candidates[0].content.parts.                           *)

TextWords == {"cannot", "sorry"}

RemoteOutcomes ==
  { [kind |-> "image", msg |-> {}],
    [kind |-> "image", msg |-> {"sorry"}],
    [kind |-> "error", msg |-> {"503", "server"}],
    [kind |-> "error", msg |-> {"401", "unauthorized"}],
    [kind |-> "error", msg |-> {"quota"}] }

\* Messages of the exceptions a throwing callback raises.
CallbackErrors == {{}, {"timeout"}}

\* The message of the error an attempt ends with (the rejection of the remote
\* call, or the GenerationError processResponse throws); "image" throws nothing.
processResponse(response) ==
  IF response.kind = "invalid" THEN {"invalid"}
  ELSE IF response.kind = "text"
       THEN IF includesAny(response.msg, TextWords)
            THEN {"blocked"} \cup (response.msg \cap Keywords)
            ELSE response.msg \cap Keywords
  ELSE {}

attemptError(outcome) ==
  IF outcome.kind = "error" THEN outcome.msg ELSE processResponse(outcome)

\* Whether a callback invoked now throws: only when the environment allows it.
CbOutcome == IF cbThrows THEN {FALSE, TRUE} ELSE {FALSE}

\* generateImage, the catch block and the head of the next loop iteration:
\* the states generateImage can be in after an attempt of number attempt
\* failed with message.  A retry notification that throws is caught by the
\* same catch block and counts as the next failed attempt.
\* Mutant: the loop allows one retry more than RETRY_DELAYS has delays.
afterFailureExtra(r, attempt, message) ==
  IF isRetryable(message) /\ attempt <= Len(RETRY_DELAYS)
  THEN {[r EXCEPT !.st = "retrying", !.attempt = attempt + 1,
                  !.lastError = parseApiError(message),
                  !.notified = Append(@, attempt + 1)]}
  ELSE {[r EXCEPT !.st = "rejected", !.attempt = attempt,
                  !.lastError = parseApiError(message)]}

\* Mutant: a failure that is not retried leaves the request cancelled, its
\* promise never settles.
afterFailureCancels(r, attempt, message) ==
  IF isRetryable(message) /\ attempt < Len(RETRY_DELAYS)
  THEN {[r EXCEPT !.st = "retrying", !.attempt = attempt + 1,
                  !.lastError = parseApiError(message),
                  !.notified = Append(@, attempt + 1)]}
  ELSE {[r EXCEPT !.st = "cancelled", !.attempt = attempt,
                  !.lastError = parseApiError(message)]}

RECURSIVE afterFailure(_, _, _)
afterFailure(r, attempt, message) ==
  LET lastError == parseApiError(message)
  IN IF isRetryable(message) /\ attempt < Len(RETRY_DELAYS)
     THEN {[r EXCEPT !.st = "retrying", !.attempt = attempt + 1,
                     !.lastError = lastError,
                     !.notified = Append(@, attempt + 1)]}
          \cup (IF cbThrows
                THEN UNION {afterFailure([r EXCEPT !.notified = Append(@, attempt + 1)],
                                         attempt + 1, e) : e \in CallbackErrors}
                ELSE {})
     ELSE {[r EXCEPT !.st = "rejected", !.attempt = attempt,
                     !.lastError = lastError]}

----------------------------------------------------------------------------
(* generator.js: ImageGenerator.chunkArray and generateBatch *)

Min(x, y) == IF x < y THEN x ELSE y

RECURSIVE chunkFrom(_, _, _)
chunkFrom(array, size, i) ==
  IF i < Len(array)
  THEN <<SubSeq(array, i + 1, Min(i + size, Len(array)))>>
         \o chunkFrom(array, size, i + size)
  ELSE <<>>

\* Mutant: the loop stops at i + size > length, a last shorter group is lost.
RECURSIVE chunkFullFrom(_, _, _)
chunkFullFrom(array, size, i) ==
  IF i + size <= Len(array)
  THEN <<SubSeq(array, i + 1, i + size)>> \o chunkFullFrom(array, size, i + size)
  ELSE <<>>

chunkArrayFullOnly(array, size) == chunkFullFrom(array, size, 0)

\* Mutant: the loop starts at i = 1, the first element is lost.
chunkArraySkips(array, size) == chunkFrom(array, size, 1)

\* Mutant: slice(i, i + size + 1), groups one element too long.
chunkArrayWide(array, size) == chunkFrom(array, size + 1, 0)

chunkArray(array, size) == chunkFrom(array, size, 0)

\* The requests of remaining, by position (the image objects of the code).
Positions(n) == [i \in 1..n |-> i]

\* chunks, over the positions of remaining
Chunks(rem, concurrency) == chunkArray(Positions(Len(rem)), concurrency)

Range(s) == {s[i] : i \in 1..Len(s)}

\* written: how often processResponse wrote the request's artifact file in this run;
\* notified: the attempt numbers named by generateImage's retry notifications;
\* slept: the delays of the sleeps generateImage has completed
Pending ==
  [st |-> "pending", attempt |-> 0, calls |-> 0, lastError |-> "none", refs |-> <<>>,
   written |-> 0, notified |-> <<>>, slept |-> <<>>]

\* new Map(): no id has references
NoRefs == [id \in Ids |-> [set |-> FALSE, refs |-> <<>>]]

\* What getReferenceImages(image) resolves with: the references of that image.
RefsOf(imageId) == <<imageId>>

\* imageRefMap.get(image.id) || []
refsFor(refMap, imageId) == IF refMap[imageId].set THEN refMap[imageId].refs ELSE <<>>

NoCalls == [id \in Ids |-> 0]

Tracker == [progress |-> progress, disk |-> disk]

InFlightStates == {"executing", "retrying", "resolved", "rejected"}

InFlight == {i \in 1..Len(req) : req[i].st \in InFlightStates}

\* The promise of a request once its map callback has ended: generateImage's
\* locals are gone, what is left is the value the promise settled with.
Settled(r, st, error) ==
  [r EXCEPT !.st = st, !.attempt = 0, !.calls = 0, !.lastError = error,
            !.notified = <<>>, !.slept = <<>>]

\* chunk.map(async ...) up to each member's first await: onImageStart, then
\* generateImage until its first remote call.  thrown: the members whose
\* onImageStart throws (their promise rejects, generateImage is not called).
\* Mutant: generateImage is called without the collected references.
launchWithoutRefs(rq, rem, members, thrown, refMap) ==
  [i \in 1..Len(rq) |->
     IF i \in thrown THEN [rq[i] EXCEPT !.st = "crashed"]
     ELSE IF i \in members
          THEN [rq[i] EXCEPT !.st = "executing", !.attempt = 0, !.calls = 1]
          ELSE rq[i]]

launch(rq, rem, members, thrown, refMap) ==
  [i \in 1..Len(rq) |->
     IF i \in thrown THEN [rq[i] EXCEPT !.st = "crashed"]
     ELSE IF i \in members
          THEN [rq[i] EXCEPT !.st = "executing", !.attempt = 0, !.calls = 1,
                             !.refs = refsFor(refMap, rem[i])]
          ELSE rq[i]]

ThrowSets(members) == IF cbThrows THEN SUBSET members ELSE {{}}

\* The for loop over chunks from group k on, up to await Promise.all: either
\* there is no group k and generateBatch returns, or the group's notification
\* throws, or the group is launched.
EnterChunk(k, rq, rem, concurrency, refMap) ==
  LET chunks == Chunks(rem, concurrency)
  IN IF k > Len(chunks)
     THEN /\ phase' = "returned"
          /\ req' = rq
          /\ chunkIndex' = k
     ELSE \E thr \in CbOutcome :
            IF thr
            THEN /\ phase' = "raised"
                 /\ req' = rq
                 /\ chunkIndex' = k
            ELSE \E thrown \in ThrowSets(Range(chunks[k])) :
                   /\ req' = launch(rq, rem, Range(chunks[k]), thrown, refMap)
                   /\ phase' = IF thrown = {} THEN "running" ELSE "raised"
                   /\ chunkIndex' = k

\* Mutant: a failed request is pushed on both lists.
RECURSIVE collectBoth(_, _, _, _)
collectBoth(res, chunk, rq, rem) ==
  IF chunk = <<>> THEN res
  ELSE LET i == Head(chunk)
           next == IF rq[i].st = "succeeded"
                   THEN [res EXCEPT !.successful = Append(@, rem[i])]
                   ELSE [res EXCEPT !.successful = Append(@, rem[i]),
                                    !.failed =
                           Append(@, [imageId |-> rem[i], error |-> rq[i].lastError])]
       IN collectBoth(next, Tail(chunk), rq, rem)

\* Mutant: the results of a group are put in front of the lists (unshift).
RECURSIVE collectInFront(_, _, _, _)
collectInFront(res, chunk, rq, rem) ==
  IF chunk = <<>> THEN res
  ELSE LET i == Head(chunk)
           next == IF rq[i].st = "succeeded"
                   THEN [res EXCEPT !.successful = <<rem[i]>> \o @]
                   ELSE [res EXCEPT !.failed =
                           <<[imageId |-> rem[i], error |-> rq[i].lastError]>> \o @]
       IN collectInFront(next, Tail(chunk), rq, rem)

\* for (const res of chunkResults): the outcomes of a group, in group order
RECURSIVE collect(_, _, _, _)
collect(res, chunk, rq, rem) ==
  IF chunk = <<>> THEN res
  ELSE LET i == Head(chunk)
           next == IF rq[i].st = "succeeded"
                   THEN [res EXCEPT !.successful = Append(@, rem[i])]
                   ELSE [res EXCEPT !.failed =
                           Append(@, [imageId |-> rem[i], error |-> rq[i].lastError])]
       IN collect(next, Tail(chunk), rq, rem)

NoOptions == [freshStart |-> FALSE, concurrency |-> 1, collector |-> FALSE]
NoResults == [successful |-> <<>>, failed |-> <<>>, skipped |-> 0]
NothingSeen ==
  [entryCompleted |-> {}, entryAttempts |-> [id \in Ids |-> 0],
   completed |-> {}, attempts |-> [id \in Ids |-> 0]]

----------------------------------------------------------------------------
(* Initial states: a fresh ImageGenerator on an output directory that is   *)
(* empty or holds the progress file of earlier runs.                       *)

PriorProgress ==
  [completed |-> <<"a">>,
   failed |-> <<[id |-> "b", attempts |-> 3, lastError |-> "TransientServerError"]>>,
   startedAt |-> "earlier"]

InitialDisks == {NoFile, [exists |-> TRUE, form |-> "record", data |-> PriorProgress]}

\* No call of the exported API has been made on its own.
NoProbe ==
  [fn |-> "none", input |-> "none", output |-> "none", raised |-> FALSE, n |-> 0,
   before |-> [progress |-> EmptyProgress, disk |-> NoFile]]

InitFrom(disks, writable, throwing) ==
  /\ disk \in disks
  /\ progress = load(disk)
  /\ fsWritable = writable
  /\ cbThrows = throwing
  /\ phase = "idle"
  /\ images = <<>>
  /\ opts = NoOptions
  /\ remaining = <<>>
  /\ collectIdx = 0
  /\ chunkIndex = 0
  /\ req = <<>>
  /\ results = NoResults
  /\ runs = 0
  /\ restarts = 0
  /\ everCompleted = IF isRecord(progress) THEN Range(progress.completed) ELSE {}
  /\ histFailed = [id \in Ids |-> IF isRecord(progress)
                                   THEN getFailedAttempts(progress, id) ELSE 0]
  /\ doneBefore = {}
  /\ failsBefore = [id \in Ids |-> 0]
  /\ seen = NothingSeen
  /\ imageRefMap = NoRefs
  /\ collectorCalls = NoCalls

InitWith(writable, throwing) ==
  /\ InitFrom(InitialDisks, writable, throwing)
  /\ probe = NoProbe

Init == InitWith(TRUE, FALSE)

\* With throwing callbacks every call site branches: fewer runs are explored;
\* with a call counter attached the runs are one request list under one set of
\* options, and more of them are explored.
RunBound ==
  IF cbThrows THEN MaxRunsCb
  ELSE IF probe.fn = "remoteCalls" THEN MaxRunsWatched
  ELSE MaxRuns

\* The requests whose remote call (ai.models.generateContent) is issued by
\* this step: those that are executing after it and were not before.
Issued ==
  {i \in 1..Len(req') :
     /\ req'[i].st = "executing"
     /\ ~(runs' = runs /\ i <= Len(req) /\ req[i].st = "executing")}

\* When the caller has wrapped the client to count the remote calls made for
\* request probe.input, probe.n is that count; otherwise probe is untouched.
CountRemoteCalls ==
  probe' = IF probe.fn = "remoteCalls"
           THEN [probe EXCEPT !.n = @ + Cardinality({i \in Issued :
                                                      remaining'[i] = probe.input})]
           ELSE probe

----------------------------------------------------------------------------
(* Actions *)

\* generateBatch(styleGuide, list, {freshStart, concurrency, getReferenceImages})
\* up to its first await
StartBatch(list, fresh, c, coll) ==
  /\ phase \in {"idle", "returned", "raised"}
  /\ InFlight = {}
  /\ runs < RunBound
  /\ LET t0 == IF fresh THEN clear(Tracker) ELSE Tracker
         rem == getRemainingDefault(t0.progress, list)
         rq == [i \in 1..Len(rem) |-> Pending]
     IN /\ progress' = t0.progress
        /\ disk' = t0.disk
        /\ images' = list
        /\ opts' = [freshStart |-> fresh, concurrency |-> c, collector |-> coll]
        /\ remaining' = rem
        /\ results' = [successful |-> <<>>, failed |-> <<>>,
                       skipped |-> Len(list) - Len(rem)]
        /\ runs' = runs + 1
        /\ everCompleted' = IF fresh THEN {} ELSE everCompleted
        /\ histFailed' = IF fresh THEN [id \in Ids |-> 0] ELSE histFailed
        /\ doneBefore' = everCompleted'
        /\ failsBefore' = histFailed'
        /\ seen' = [entryCompleted |-> Range(progress.completed),
                     entryAttempts |-> [id \in Ids |-> getFailedAttempts(progress, id)],
                     completed |-> Range(t0.progress.completed),
                     attempts |-> [id \in Ids |-> getFailedAttempts(t0.progress, id)]]
        /\ imageRefMap' = NoRefs
        /\ \E thr \in CbOutcome :
             IF thr
             THEN /\ phase' = "raised"
                  /\ req' = rq
                  /\ collectIdx' = 0
                  /\ chunkIndex' = 0
                  /\ collectorCalls' = NoCalls
             ELSE IF coll /\ rem # <<>>
                  THEN /\ phase' = "collecting"
                       /\ req' = rq
                       /\ collectIdx' = 1
                       /\ chunkIndex' = 0
                       /\ collectorCalls' = [NoCalls EXCEPT ![rem[1]] = 1]
                  ELSE /\ collectIdx' = 0
                       /\ collectorCalls' = NoCalls
                       /\ EnterChunk(1, rq, rem, c, NoRefs)
  /\ UNCHANGED <<fsWritable, cbThrows, restarts>>
  /\ CountRemoteCalls

\* await getReferenceImages(image) settles for remaining[collectIdx]
CollectorReturns ==
  /\ phase = "collecting"
  /\ \E thr \in CbOutcome :
       IF thr
       THEN /\ phase' = "raised"
            /\ UNCHANGED <<req, collectIdx, chunkIndex, imageRefMap, collectorCalls>>
       ELSE /\ imageRefMap' =
                 [imageRefMap EXCEPT ![remaining[collectIdx]] =
                    [set |-> TRUE, refs |-> RefsOf(remaining[collectIdx])]]
            /\ IF collectIdx < Len(remaining)
               THEN /\ collectIdx' = collectIdx + 1
                    /\ collectorCalls' =
                         [collectorCalls EXCEPT ![remaining[collectIdx + 1]] = @ + 1]
                    /\ UNCHANGED <<phase, req, chunkIndex>>
               ELSE /\ collectIdx' = collectIdx
                    /\ UNCHANGED collectorCalls
                    /\ EnterChunk(1, req, remaining, opts.concurrency, imageRefMap')
  /\ UNCHANGED <<progress, disk, fsWritable, cbThrows, images, opts, remaining,
                 results, runs, restarts, everCompleted, histFailed, doneBefore,
                 failsBefore, seen>>
  /\ CountRemoteCalls

\* Mutant: the artifact file is written before the response is validated.
RemoteRespondsWritesFirst(i, outcome) ==
  /\ i \in 1..Len(req)
  /\ req[i].st = "executing"
  /\ IF outcome.kind = "image"
     THEN req' = [req EXCEPT ![i].st = "resolved", ![i].written = @ + 1]
     ELSE \E r \in afterFailure(req[i], req[i].attempt, attemptError(outcome)) :
            req' = [req EXCEPT ![i] = [r EXCEPT !.written = @ + 1]]
  /\ UNCHANGED <<imageRefMap, collectorCalls, probe>>
  /\ UNCHANGED <<progress, disk, fsWritable, cbThrows, phase, images, opts,
                 remaining, collectIdx, chunkIndex, results, runs, restarts,
                 everCompleted, histFailed, doneBefore, failsBefore, seen>>

\* generateImage: the remote call of request i settles with outcome; a
\* response with an image part makes processResponse write the artifact file
\* and return, whatever its text parts are
RemoteResponds(i, outcome) ==
  /\ i \in 1..Len(req)
  /\ req[i].st = "executing"
  /\ IF outcome.kind = "image"
     THEN req' = [req EXCEPT ![i].st = "resolved", ![i].written = @ + 1]
     ELSE \E r \in afterFailure(req[i], req[i].attempt, attemptError(outcome)) :
            req' = [req EXCEPT ![i] = r]
  /\ UNCHANGED <<imageRefMap, collectorCalls, probe>>
  /\ UNCHANGED <<progress, disk, fsWritable, cbThrows, phase, images, opts,
                 remaining, collectIdx, chunkIndex, results, runs, restarts,
                 everCompleted, histFailed, doneBefore, failsBefore, seen>>

\* Mutant: every retry is recorded as a failed attempt.
SleepDoneCountsAttempt(i) ==
  /\ i \in 1..Len(req)
  /\ req[i].st = "retrying"
  /\ req' = [req EXCEPT ![i].st = "executing", ![i].calls = @ + 1,
                         ![i].slept = Append(@, delayBefore(req[i].attempt))]
  /\ LET t == markFailed(Tracker, remaining[i], req[i].lastError)
     IN /\ progress' = t.progress
        /\ disk' = t.disk
  /\ histFailed' = [histFailed EXCEPT ![remaining[i]] = @ + 1]
  /\ UNCHANGED <<imageRefMap, collectorCalls>>
  /\ UNCHANGED <<fsWritable, cbThrows, phase, images, opts,
                 remaining, collectIdx, chunkIndex, results, runs, restarts,
                 everCompleted, doneBefore, failsBefore, seen>>
  /\ CountRemoteCalls

\* Mutant: every retry waits for the first delay.
SleepDoneFixedDelay(i) ==
  /\ i \in 1..Len(req)
  /\ req[i].st = "retrying"
  /\ req' = [req EXCEPT ![i].st = "executing", ![i].calls = @ + 1,
                         ![i].slept = Append(@, delayBefore(1))]
  /\ UNCHANGED <<imageRefMap, collectorCalls>>
  /\ UNCHANGED <<progress, disk, fsWritable, cbThrows, phase, images, opts,
                 remaining, collectIdx, chunkIndex, results, runs, restarts,
                 everCompleted, histFailed, doneBefore, failsBefore, seen>>
  /\ CountRemoteCalls

\* generateImage: the backoff sleep of request i is over, the next remote call starts
SleepDone(i) ==
  /\ i \in 1..Len(req)
  /\ req[i].st = "retrying"
  /\ req' = [req EXCEPT ![i].st = "executing", ![i].calls = @ + 1,
                         ![i].slept = Append(@, delayBefore(req[i].attempt))]
  /\ UNCHANGED <<imageRefMap, collectorCalls>>
  /\ UNCHANGED <<progress, disk, fsWritable, cbThrows, phase, images, opts,
                 remaining, collectIdx, chunkIndex, results, runs, restarts,
                 everCompleted, histFailed, doneBefore, failsBefore, seen>>
  /\ CountRemoteCalls

\* generateBatch: the map callback of request i resumes after generateImage
Settle(i) ==
  /\ i \in 1..Len(req)
  /\ req[i].st \in {"resolved", "rejected"}
  /\ LET id == remaining[i]
     IN IF req[i].st = "resolved"
        THEN LET t1 == markCompleted(Tracker, id)
             IN /\ everCompleted' = everCompleted \cup {id}
                /\ \E thr \in CbOutcome :
                     IF ~thr
                     THEN /\ progress' = t1.progress
                          /\ disk' = t1.disk
                          /\ req' = [req EXCEPT ![i] = Settled(@, "succeeded", "none")]
                          /\ UNCHANGED <<phase, histFailed>>
                     ELSE \E thr2 \in CbOutcome :
                            LET t2 == markFailed(t1, id, "CallbackError")
                            IN /\ progress' = t2.progress
                               /\ disk' = t2.disk
                               /\ histFailed' = [histFailed EXCEPT ![id] = @ + 1]
                               /\ req' = [req EXCEPT ![i] =
                                            Settled(@, IF thr2 THEN "crashed" ELSE "failed",
                                                    "CallbackError")]
                               /\ phase' = IF thr2 THEN "raised" ELSE phase
        ELSE LET t1 == markFailed(Tracker, id, req[i].lastError)
             IN /\ progress' = t1.progress
                /\ disk' = t1.disk
                /\ histFailed' = [histFailed EXCEPT ![id] = @ + 1]
                /\ UNCHANGED everCompleted
                /\ \E thr \in CbOutcome :
                     /\ req' = [req EXCEPT ![i] =
                                  Settled(@, IF thr THEN "crashed" ELSE "failed",
                                          @.lastError)]
                     /\ phase' = IF thr THEN "raised" ELSE phase
  /\ UNCHANGED <<imageRefMap, collectorCalls, probe>>
  /\ UNCHANGED <<fsWritable, cbThrows, images, opts, remaining, collectIdx,
                 chunkIndex, results, runs, restarts, doneBefore, failsBefore,
                 seen>>

\* Mutant: a failed member makes generateBatch stop after its group.
FinishChunkFailFast ==
  /\ phase = "running"
  /\ LET chunk == Chunks(remaining, opts.concurrency)[chunkIndex]
     IN /\ \A i \in Range(chunk) : req[i].st \in {"succeeded", "failed"}
        /\ results' = collect(results, chunk, req, remaining)
        /\ IF \E i \in Range(chunk) : req[i].st = "failed"
           THEN /\ phase' = "returned"
                /\ UNCHANGED <<req, chunkIndex>>
           ELSE EnterChunk(chunkIndex + 1, req, remaining, opts.concurrency, imageRefMap)
  /\ UNCHANGED <<imageRefMap, collectorCalls>>
  /\ UNCHANGED <<progress, disk, fsWritable, cbThrows, images, opts, remaining,
                 collectIdx, runs, restarts, everCompleted, histFailed, doneBefore,
                 failsBefore, seen>>
  /\ CountRemoteCalls

\* Mutant: the next group starts as soon as one member of the group is done
\* (Promise.race in place of Promise.all).
FinishChunkAny ==
  /\ phase = "running"
  /\ LET chunk == Chunks(remaining, opts.concurrency)[chunkIndex]
     IN /\ \E i \in Range(chunk) : req[i].st \in {"succeeded", "failed"}
        /\ results' = collect(results, chunk, req, remaining)
        /\ EnterChunk(chunkIndex + 1, req, remaining, opts.concurrency, imageRefMap)
  /\ UNCHANGED <<imageRefMap, collectorCalls>>
  /\ UNCHANGED <<progress, disk, fsWritable, cbThrows, images, opts, remaining,
                 collectIdx, runs, restarts, everCompleted, histFailed, doneBefore,
                 failsBefore, seen>>
  /\ CountRemoteCalls

\* generateBatch: await Promise.all(promises) resolves for the current group
FinishChunk ==
  /\ phase = "running"
  /\ LET chunk == Chunks(remaining, opts.concurrency)[chunkIndex]
     IN /\ \A i \in Range(chunk) : req[i].st \in {"succeeded", "failed"}
        /\ results' = collect(results, chunk, req, remaining)
        /\ EnterChunk(chunkIndex + 1, req, remaining, opts.concurrency, imageRefMap)
  /\ UNCHANGED <<imageRefMap, collectorCalls>>
  /\ UNCHANGED <<progress, disk, fsWritable, cbThrows, images, opts, remaining,
                 collectIdx, runs, restarts, everCompleted, histFailed, doneBefore,
                 failsBefore, seen>>
  /\ CountRemoteCalls

\* The process is killed (or exits) and a new ImageGenerator is constructed on
\* the same output directory: new ProgressTracker(outputDir) loads the file.
Restart ==
  /\ phase # "idle"
  /\ restarts < MaxRestarts
  /\ restarts' = restarts + 1
  /\ progress' = load(disk)
  /\ phase' = "idle"
  /\ images' = <<>>
  /\ opts' = NoOptions
  /\ remaining' = <<>>
  /\ collectIdx' = 0
  /\ chunkIndex' = 0
  /\ req' = <<>>
  /\ results' = NoResults
  /\ doneBefore' = {}
  /\ failsBefore' = [id \in Ids |-> 0]
  /\ seen' = NothingSeen
  /\ imageRefMap' = NoRefs
  /\ collectorCalls' = NoCalls
  /\ UNCHANGED probe
  /\ UNCHANGED <<disk, fsWritable, cbThrows, runs, everCompleted, histFailed>>

Next ==
  \/ \E list \in InputLists, fresh \in BOOLEAN, c \in 1..MaxConcurrency,
        coll \in BOOLEAN : StartBatch(list, fresh, c, coll)
  \/ CollectorReturns
  \/ \E i \in 1..Len(req), outcome \in RemoteOutcomes : RemoteResponds(i, outcome)
  \/ \E i \in 1..Len(req) : SleepDone(i)
  \/ \E i \in 1..Len(req) : Settle(i)
  \/ FinishChunk
  \/ Restart

Spec == Init /\ [][Next]_vars

----------------------------------------------------------------------------
(* The ProgressTracker used on its own (index.js exports it; the CLI's     *)
(* status and clear commands construct one): any sequence of its calls.    *)

MarkErrors == {"TimeoutError", "AuthError"}

MarkCompletedCall(imageId) ==
  /\ LET t == markCompleted(Tracker, imageId)
     IN /\ progress' = t.progress
        /\ disk' = t.disk
  /\ everCompleted' = everCompleted \cup {imageId}
  /\ UNCHANGED <<imageRefMap, collectorCalls, probe>>
  /\ UNCHANGED <<fsWritable, cbThrows, phase, images, opts, remaining, collectIdx,
                 chunkIndex, req, results, runs, restarts, histFailed, doneBefore,
                 failsBefore, seen>>

MarkFailedCall(imageId, error) ==
  /\ histFailed[imageId] < MaxAttempts
  /\ LET t == markFailed(Tracker, imageId, error)
     IN /\ progress' = t.progress
        /\ disk' = t.disk
  /\ histFailed' = [histFailed EXCEPT ![imageId] = @ + 1]
  /\ UNCHANGED <<imageRefMap, collectorCalls, probe>>
  /\ UNCHANGED <<fsWritable, cbThrows, phase, images, opts, remaining, collectIdx,
                 chunkIndex, req, results, runs, restarts, everCompleted, doneBefore,
                 failsBefore, seen>>

ClearCall ==
  /\ LET t == clear(Tracker)
     IN /\ progress' = t.progress
        /\ disk' = t.disk
  /\ everCompleted' = {}
  /\ histFailed' = [id \in Ids |-> 0]
  /\ UNCHANGED <<imageRefMap, collectorCalls, probe>>
  /\ UNCHANGED <<fsWritable, cbThrows, phase, images, opts, remaining, collectIdx,
                 chunkIndex, req, results, runs, restarts, doneBefore, failsBefore,
                 seen>>

\* new ProgressTracker(outputDir) on the same directory
Reload ==
  /\ restarts < MaxRestarts
  /\ restarts' = restarts + 1
  /\ progress' = load(disk)
  /\ UNCHANGED <<imageRefMap, collectorCalls, probe>>
  /\ UNCHANGED <<disk, fsWritable, cbThrows, phase, images, opts, remaining,
                 collectIdx, chunkIndex, req, results, runs, everCompleted,
                 histFailed, doneBefore, failsBefore, seen>>

NextTracker ==
  \/ \E imageId \in Ids : MarkCompletedCall(imageId)
  \/ \E imageId \in Ids, error \in MarkErrors : MarkFailedCall(imageId, error)
  \/ ClearCall
  \/ Reload

SpecTracker == Init /\ [][NextTracker]_vars

\* The same program with callbacks that may throw.
InitCb == InitWith(TRUE, TRUE)
SpecCb == InitCb /\ [][Next]_vars

\* The same program with a remote service that answers every call with an
\* image, called on request lists of every length up to three.
SuccessLists == {<<>>, <<"b">>, <<"b", "a">>, <<"a", "b", "c">>}

ImageOutcome == [kind |-> "image", msg |-> {}]

NextSuccess ==
  \/ \E list \in SuccessLists, fresh \in BOOLEAN, c \in 1..MaxConcurrency,
        coll \in BOOLEAN : StartBatch(list, fresh, c, coll)
  \/ CollectorReturns
  \/ \E i \in 1..Len(req) : RemoteResponds(i, ImageOutcome)
  \/ \E i \in 1..Len(req) : Settle(i)
  \/ FinishChunk

SpecSuccess == Init /\ [][NextSuccess]_vars

\* The same program with a remote service that fails every call for b with
\* "503 server error" and answers every other call with an image.
ServerError == [kind |-> "error", msg |-> {"503", "server"}]

OutageOutcome(i) == IF remaining[i] = "b" THEN ServerError ELSE ImageOutcome

NextOutage ==
  \/ \E list \in InputLists, fresh \in BOOLEAN, c \in 1..MaxConcurrency,
        coll \in BOOLEAN : StartBatch(list, fresh, c, coll)
  \/ CollectorReturns
  \/ \E i \in 1..Len(req) : RemoteResponds(i, OutageOutcome(i))
  \/ \E i \in 1..Len(req) : SleepDone(i)
  \/ \E i \in 1..Len(req) : Settle(i)
  \/ FinishChunk

SpecOutage == Init /\ [][NextOutage]_vars

\* The same program run again and again on the list a, b without fresh
\* start, with the remote calls made for b counted.
WatchedOutcomes ==
  {ImageOutcome, ServerError, [kind |-> "error", msg |-> {"401", "unauthorized"}]}

InitWatched ==
  /\ InitFrom({NoFile}, TRUE, FALSE)
  /\ probe = [NoProbe EXCEPT !.fn = "remoteCalls", !.input = "b"]

NextWatched ==
  \/ StartBatch(<<"a", "b">>, FALSE, MaxConcurrency, FALSE)
  \/ \E i \in 1..Len(req), outcome \in WatchedOutcomes : RemoteResponds(i, outcome)
  \/ \E i \in 1..Len(req) : SleepDone(i)
  \/ \E i \in 1..Len(req) : Settle(i)
  \/ FinishChunk

SpecWatched == InitWatched /\ [][NextWatched]_vars

\* The same program with a remote service that answers with text only: for a
\* a refusal (the text has "sorry" or "cannot"), for b another text, each
\* possibly with words the error classifier looks for; for c an image, a
\* response without parts or one with neither image nor text.
TextExtras == {{}, {"temporarily"}, {"quota"}, {"invalid"}}

TextOutcomes(i) ==
  IF remaining[i] = "a"
  THEN {[kind |-> "text", msg |-> {word} \cup extra] : word \in TextWords, extra \in TextExtras}
  ELSE IF remaining[i] = "b"
  THEN {[kind |-> "text", msg |-> {"hello"} \cup extra] : extra \in TextExtras}
  ELSE {ImageOutcome, [kind |-> "invalid", msg |-> {}], [kind |-> "empty", msg |-> {}]}

NextText ==
  \/ \E list \in InputLists, fresh \in BOOLEAN, c \in 1..MaxConcurrency,
        coll \in BOOLEAN : StartBatch(list, fresh, c, coll)
  \/ CollectorReturns
  \/ \E i \in 1..Len(req) : \E outcome \in TextOutcomes(i) : RemoteResponds(i, outcome)
  \/ \E i \in 1..Len(req) : SleepDone(i)
  \/ \E i \in 1..Len(req) : Settle(i)
  \/ FinishChunk

SpecText == Init /\ [][NextText]_vars

\* The same program on a directory that cannot be written: mkdirSync or
\* writeFileSync of every save throws.
InitNoWrite == InitWith(FALSE, FALSE)
SpecNoWrite == InitNoWrite /\ [][Next]_vars

----------------------------------------------------------------------------
(* errors.js used on its own (index.js exports parseApiError): the caller  *)
(* holds an error with message probe.input and classifies it.              *)

InitClassify ==
  /\ InitFrom(InitialDisks, TRUE, FALSE)
  /\ probe \in {[NoProbe EXCEPT !.input = raw] : raw \in RawMessages}

Classify ==
  /\ probe.fn = "none"
  /\ probe' = [probe EXCEPT !.fn = "parseApiError", !.output = parsedError(probe.input)]
  /\ UNCHANGED <<progress, disk, fsWritable, cbThrows, phase, images, opts,
                 remaining, collectIdx, chunkIndex, req, results, runs, restarts,
                 everCompleted, histFailed, doneBefore, failsBefore, seen,
                 imageRefMap, collectorCalls>>

NextClassify == Classify

SpecClassify == InitClassify /\ [][NextClassify]_vars

----------------------------------------------------------------------------
(* prompt-builder.js used on its own (index.js exports its functions):     *)
(* the caller holds the argument in probe.input and applies the function.  *)

ProbeFrame ==
  UNCHANGED <<progress, disk, fsWritable, cbThrows, phase, images, opts,
              remaining, collectIdx, chunkIndex, req, results, runs, restarts,
              everCompleted, histFailed, doneBefore, failsBefore, seen,
              imageRefMap, collectorCalls>>

InitNormalize ==
  /\ InitFrom(InitialDisks, TRUE, FALSE)
  /\ probe \in {[NoProbe EXCEPT !.input = str] : str \in RatioStrings}

Normalize ==
  /\ probe.fn = "none"
  /\ probe' = [probe EXCEPT !.fn = "normalizeAspectRatio",
                            !.output = normalizeAspectRatio(probe.input)]
  /\ ProbeFrame

NextNormalize == Normalize

SpecNormalize == InitNormalize /\ [][NextNormalize]_vars

InitFormat ==
  /\ InitFrom(InitialDisks, TRUE, FALSE)
  /\ probe \in {[NoProbe EXCEPT !.input = arg] :
                  arg \in StyleGuides \cup {[style_guide |-> sg] : sg \in StyleGuides}}

Format ==
  /\ probe.fn = "none"
  /\ probe' = [probe EXCEPT !.fn = "formatStyleGuide",
                            !.output = formatStyleGuide(probe.input)]
  /\ ProbeFrame

NextFormat == Format

SpecFormat == InitFormat /\ [][NextFormat]_vars

----------------------------------------------------------------------------
(* chunkArray used on its own: the caller holds the list and the size in    *)
(* probe.input and applies the function.                                    *)

RECURSIVE ListsUpTo(_)
ListsUpTo(n) ==
  IF n = 0 THEN {<<>>}
  ELSE LET shorter == ListsUpTo(n - 1)
       IN shorter \cup {Append(l, id) : l \in {s \in shorter : Len(s) = n - 1}, id \in Ids}

ChunkInputs == {[array |-> l, size |-> k] : l \in ListsUpTo(MaxLen), k \in 1..MaxSize}

InitChunk ==
  /\ InitFrom(InitialDisks, TRUE, FALSE)
  /\ probe \in {[NoProbe EXCEPT !.input = arg] : arg \in ChunkInputs}

Chunk ==
  /\ probe.fn = "none"
  /\ probe' = [probe EXCEPT !.fn = "chunkArray",
                            !.output = chunkArray(probe.input.array, probe.input.size)]
  /\ ProbeFrame

NextChunk == Chunk

SpecChunk == InitChunk /\ [][NextChunk]_vars

----------------------------------------------------------------------------
(* generateBatch with the partition loop of chunkArray taken step by step,  *)
(* for any integer concurrency: probe holds the loop's locals (input: array *)
(* and size, output: chunks, n: i).                                         *)

PartitionSizes == -1..MaxConcurrency

Max(x, y) == IF x > y THEN x ELSE y

\* Array.prototype.slice: a negative index counts from the end
sliceIndex(len, k) == IF k < 0 THEN Max(len + k, 0) ELSE Min(k, len)

slice(array, start, end) ==
  LET from == sliceIndex(Len(array), start)
      to == sliceIndex(Len(array), end)
  IN IF from < to THEN SubSeq(array, from + 1, to) ELSE <<>>

PartitionFrame ==
  UNCHANGED <<progress, disk, fsWritable, cbThrows, images, opts, remaining,
              collectIdx, results, runs, restarts, everCompleted, histFailed,
              doneBefore, failsBefore, seen, imageRefMap, collectorCalls>>

\* generateBatch up to the call of chunkArray (no fresh start, no collector)
StartPartition(list, c) ==
  /\ phase \in {"idle", "returned"}
  /\ InFlight = {}
  /\ runs < RunBound
  /\ LET rem == getRemainingDefault(progress, list)
     IN /\ images' = list
        /\ opts' = [freshStart |-> FALSE, concurrency |-> c, collector |-> FALSE]
        /\ remaining' = rem
        /\ results' = [successful |-> <<>>, failed |-> <<>>,
                       skipped |-> Len(list) - Len(rem)]
        /\ req' = [i \in 1..Len(rem) |-> Pending]
        /\ probe' = [NoProbe EXCEPT !.fn = "chunkArray loop",
                                    !.input = [array |-> Positions(Len(rem)), size |-> c],
                                    !.output = <<>>]
  /\ runs' = runs + 1
  /\ phase' = "partitioning"
  /\ doneBefore' = everCompleted
  /\ failsBefore' = histFailed
  /\ seen' = [entryCompleted |-> Range(progress.completed),
               entryAttempts |-> [id \in Ids |-> getFailedAttempts(progress, id)],
               completed |-> Range(progress.completed),
               attempts |-> [id \in Ids |-> getFailedAttempts(progress, id)]]
  /\ imageRefMap' = NoRefs
  /\ collectorCalls' = NoCalls
  /\ collectIdx' = 0
  /\ chunkIndex' = 0
  /\ UNCHANGED <<progress, disk, fsWritable, cbThrows, restarts, everCompleted,
                 histFailed>>

\* Mutant: the loop advances by at least one element.
PartitionStepClamped ==
  /\ phase = "partitioning"
  /\ probe.n < Len(probe.input.array)
  /\ Len(probe.output) < MaxIter
  /\ probe' = [probe EXCEPT
       !.output = Append(@, slice(probe.input.array, probe.n, probe.n + probe.input.size)),
       !.n = @ + Max(probe.input.size, 1)]
  /\ UNCHANGED <<phase, req, chunkIndex>>
  /\ PartitionFrame

\* chunkArray: one iteration of for (i = 0; i < array.length; i += size)
PartitionStep ==
  /\ phase = "partitioning"
  /\ probe.n < Len(probe.input.array)
  /\ Len(probe.output) < MaxIter
  /\ probe' = [probe EXCEPT
       !.output = Append(@, slice(probe.input.array, probe.n, probe.n + probe.input.size)),
       !.n = @ + probe.input.size]
  /\ UNCHANGED <<phase, req, chunkIndex>>
  /\ PartitionFrame

\* chunkArray: the loop condition fails, chunks is returned and the chunk
\* loop of generateBatch begins
PartitionDone ==
  /\ phase = "partitioning"
  /\ ~(probe.n < Len(probe.input.array))
  /\ probe' = [probe EXCEPT !.fn = "chunkArray"]
  /\ EnterChunk(1, req, remaining, opts.concurrency, NoRefs)
  /\ PartitionFrame

NextPartition ==
  \/ \E list \in InputLists, c \in PartitionSizes : StartPartition(list, c)
  \/ PartitionStep
  \/ PartitionDone
  \/ \E i \in 1..Len(req), outcome \in RemoteOutcomes : RemoteResponds(i, outcome)
  \/ \E i \in 1..Len(req) : SleepDone(i)
  \/ \E i \in 1..Len(req) : Settle(i)
  \/ FinishChunk

SpecPartition == Init /\ [][NextPartition]_vars

(* Two ProgressTracker instances on one output directory: the generator's   *)
(* (progress) and a second process's, e.g. the CLI clear or status command, *)
(* whose this.progress is held in probe.output.  Each call is synchronous,  *)
(* so the calls of the two instances interleave call by call.               *)

Second == [progress |-> probe.output, disk |-> disk]

TwoFrame ==
  UNCHANGED <<fsWritable, cbThrows, phase, images, opts, remaining, collectIdx,
              chunkIndex, req, results, runs, doneBefore, failsBefore, seen,
              imageRefMap, collectorCalls>>

InitTwo ==
  /\ InitFrom(InitialDisks, TRUE, FALSE)
  /\ probe = [NoProbe EXCEPT !.fn = "second tracker", !.output = load(disk)]

\* the result t of a call made through the second instance
SecondAfter(t) ==
  /\ probe' = [probe EXCEPT !.output = t.progress, !.n = @ + 1]
  /\ disk' = t.disk
  /\ UNCHANGED <<progress, restarts>>
  /\ TwoFrame

\* the result t of a call made through the generator's instance
FirstAfter(t) ==
  /\ progress' = t.progress
  /\ disk' = t.disk
  /\ probe' = [probe EXCEPT !.n = @ + 1]
  /\ UNCHANGED restarts
  /\ TwoFrame

MarkCompletedFirst(imageId) ==
  /\ probe.n < MaxCallsTwo
  /\ FirstAfter(markCompleted(Tracker, imageId))
  /\ everCompleted' = everCompleted \cup {imageId}
  /\ UNCHANGED histFailed

MarkFailedFirst(imageId, error) ==
  /\ probe.n < MaxCallsTwo
  /\ FirstAfter(markFailed(Tracker, imageId, error))
  /\ histFailed' = [histFailed EXCEPT ![imageId] = @ + 1]
  /\ UNCHANGED everCompleted

ClearFirst ==
  /\ probe.n < MaxCallsTwo
  /\ FirstAfter(clear(Tracker))
  /\ everCompleted' = {}
  /\ histFailed' = [id \in Ids |-> 0]

MarkCompletedSecond(imageId) ==
  /\ probe.n < MaxCallsTwo
  /\ SecondAfter(markCompleted(Second, imageId))
  /\ everCompleted' = everCompleted \cup {imageId}
  /\ UNCHANGED histFailed

MarkFailedSecond(imageId, error) ==
  /\ probe.n < MaxCallsTwo
  /\ SecondAfter(markFailed(Second, imageId, error))
  /\ histFailed' = [histFailed EXCEPT ![imageId] = @ + 1]
  /\ UNCHANGED everCompleted

ClearSecond ==
  /\ probe.n < MaxCallsTwo
  /\ SecondAfter(clear(Second))
  /\ everCompleted' = {}
  /\ histFailed' = [id \in Ids |-> 0]

\* the second process ends and another one starts: new ProgressTracker(dir)
ConstructSecond ==
  /\ probe.n < MaxCallsTwo
  /\ probe' = [probe EXCEPT !.output = load(disk), !.n = @ + 1]
  /\ UNCHANGED <<progress, disk, restarts, everCompleted, histFailed>>
  /\ TwoFrame

NextTwo ==
  \/ \E imageId \in Ids : MarkCompletedFirst(imageId)
  \/ \E imageId \in Ids, error \in MarkErrors : MarkFailedFirst(imageId, error)
  \/ ClearFirst
  \/ \E imageId \in Ids : MarkCompletedSecond(imageId)
  \/ \E imageId \in Ids, error \in MarkErrors : MarkFailedSecond(imageId, error)
  \/ ClearSecond
  \/ ConstructSecond

SpecTwo == InitTwo /\ [][NextTwo]_vars

(* A run that is not killed, on an event loop that runs every callback that *)
(* is ready, with a remote service and a collector that always answer.      *)

Progresses ==
  \/ CollectorReturns
  \/ \E i \in 1..Len(req), outcome \in RemoteOutcomes : RemoteResponds(i, outcome)
  \/ \E i \in 1..Len(req) : SleepDone(i)
  \/ \E i \in 1..Len(req) : Settle(i)
  \/ FinishChunk

NextLive ==
  \/ \E list \in InputLists, fresh \in BOOLEAN, c \in 1..MaxConcurrency,
        coll \in BOOLEAN : StartBatch(list, fresh, c, coll)
  \/ CollectorReturns
  \/ \E i \in 1..Len(req), outcome \in RemoteOutcomes : RemoteResponds(i, outcome)
  \/ \E i \in 1..Len(req) : SleepDone(i)
  \/ \E i \in 1..Len(req) : Settle(i)
  \/ FinishChunk

SpecLive == Init /\ [][NextLive]_vars /\ WF_vars(Progresses)

----------------------------------------------------------------------------
(* Properties *)

Terminal == {"succeeded", "failed"}

InRun == phase \in {"collecting", "running", "returned"}

\* What the record of every markCompleted / markFailed call since the last
\* clear says remaining must be: the requests neither completed nor failed
\* k times, in the order of the list.
ExpectedRemaining(list, C, F, k) ==
  SelectSeq(list, LAMBDA id : id \notin C /\ F[id] < k)

\* C1: at every instant of a generateBatch run with concurrency c, at most c
\* requests are in flight (generateImage started, outcome not yet recorded).
ConcurrencyBound == Cardinality(InFlight) <= opts.concurrency

ConcurrencyBoundWitness ==
  /\ opts.concurrency = 2
  /\ Len(remaining) = 3
  /\ Cardinality(InFlight) = 2
  /\ req[1].st = "retrying"
  /\ req[2].st = "resolved"
  /\ req[3].st = "pending"

\* C2: a run that starts after the process was killed, on a tracker loaded
\* from the same directory and without freshStart, skips exactly the requests
\* marked completed (or failed three times) before the kill, executes the
\* others, and reads for every id the attempts recorded before the kill.
ResumeAfterKill ==
  (restarts > 0 /\ InRun /\ ~opts.freshStart) =>
     /\ remaining = ExpectedRemaining(images, doneBefore, failsBefore, 3)
     /\ results.skipped =
          Cardinality({i \in 1..Len(images) :
                         images[i] \in doneBefore \/ failsBefore[images[i]] >= 3})
     /\ \A id \in Ids : seen.attempts[id] = failsBefore[id]
     /\ \A i \in 1..Len(req) : req[i].st # "pending" => remaining[i] \notin doneBefore
     /\ phase = "returned" => \A i \in 1..Len(req) : req[i].st \in Terminal

ResumeAfterKillWitness ==
  /\ restarts = 1
  /\ phase = "returned"
  /\ ~opts.freshStart
  /\ images = <<"a", "b", "c">>
  /\ doneBefore = {"a"}
  /\ failsBefore = [id \in Ids |-> IF id = "b" THEN 1 ELSE 0]
  /\ seen.attempts["b"] = 1
  /\ remaining = <<"b", "c">>
  /\ results.skipped = 1
  /\ \A i \in 1..2 : req[i].st \in Terminal

\* C3: every outcome recorded so far is in the in-memory record and in the
\* durable file: the file always reads back as the in-memory record, it holds
\* every markCompleted and markFailed made since the last clear, and every
\* request of the run that reached its terminal outcome is in it.
OutcomesDurable ==
  /\ load(disk) = progress
  /\ Range(load(disk).completed) = everCompleted
  /\ \A id \in Ids : getFailedAttempts(load(disk), id) = histFailed[id]
  /\ \A i \in 1..Len(req) :
       /\ req[i].st = "succeeded" => isCompleted(load(disk), remaining[i])
       /\ req[i].st = "failed" =>
            getFailedAttempts(load(disk), remaining[i]) = failsBefore[remaining[i]] + 1

OutcomesDurableWitness ==
  /\ phase = "running"
  /\ opts.concurrency = 2
  /\ Len(req) = 3
  /\ req[1].st = "succeeded"
  /\ req[2].st \in {"executing", "retrying"}
  /\ disk.exists
  /\ isCompleted(disk.data, remaining[1])

\* C4: without freshStart or clear, a request whose id was in completed when
\* a run started gets no remote call in that run.
NoCallForCompleted ==
  \A i \in 1..Len(req) : req[i].st # "pending" => remaining[i] \notin doneBefore

NoCallForCompletedWitness ==
  /\ runs = 2
  /\ restarts = 0
  /\ ~opts.freshStart
  /\ phase = "returned"
  /\ "c" \in doneBefore
  /\ "a" \notin doneBefore
  /\ \E i \in 1..Len(req) : remaining[i] = "a" /\ req[i].st \in Terminal

\* C5: a request's terminal failure leaves its siblings and the later groups
\* alone: the step that records a failure changes no other request, a request
\* ends succeeded only from a resolved generateImage and failed only from a
\* rejected one (with that error), and when generateBatch returns every
\* remaining request has been executed to its own terminal outcome.
FailureStep(i) ==
  /\ i \in 1..Len(req)
  /\ Len(req') = Len(req)
  /\ req[i].st # "failed"
  /\ req'[i].st = "failed"

FailureIsolated ==
  [][ /\ \A i \in 1..Len(req) :
           FailureStep(i) =>
             /\ req[i].st = "rejected"
             /\ req'[i].lastError = req[i].lastError
             /\ \A j \in 1..Len(req) : j # i => req'[j] = req[j]
             /\ phase' = phase
      /\ \A i \in 1..Len(req) :
           (Len(req') = Len(req) /\ req[i].st # "succeeded" /\ req'[i].st = "succeeded")
             => req[i].st = "resolved"
      /\ phase' = "returned" =>
           /\ Len(req') = Len(remaining')
           /\ \A i \in 1..Len(req') : req'[i].st \in Terminal ]_vars

FailureIsolatedWitness ==
  /\ phase = "returned"
  /\ opts.concurrency = 2
  /\ remaining = <<"a", "b", "c">>
  /\ results.failed = <<[imageId |-> "a", error |-> "AuthError"]>>
  /\ results.successful = <<"b", "c">>

\* C6: generateBatch never raises, whatever the callbacks do.
BatchNeverRaises == phase # "raised"

\* C7: getRemaining(R, k) is the subsequence of R of the requests whose id is
\* not in completed and whose failed attempts (0 without a failure record) are
\* below k, in the order of R, for every list R and every k; k defaults to 3.
AttemptsOf(p, id) ==
  LET recs == {i \in 1..Len(p.failed) : p.failed[i].id = id}
  IN IF recs = {} THEN 0 ELSE p.failed[CHOOSE i \in recs : TRUE].attempts

GetRemainingExact ==
  \A R \in RequestLists :
    LET C == Range(progress.completed)
        F == [id \in Ids |-> AttemptsOf(progress, id)]
    IN /\ \A k \in 0..MaxK :
            getRemaining(progress, R, k) = ExpectedRemaining(R, C, F, k)
       /\ getRemainingDefault(progress, R) = ExpectedRemaining(R, C, F, 3)

GetRemainingExactWitness ==
  /\ getRemaining(progress, <<"c", "a", "b">>, 3) = <<"c">>
  /\ getRemaining(progress, <<"c", "a", "b">>, 4) = <<"c", "b">>
  /\ getRemaining(progress, <<"b", "b">>, 4) = <<"b", "b">>
  /\ getRemainingDefault(progress, <<"b", "c", "a">>) = <<"c">>
  /\ getFailedAttempts(progress, "c") = 2

\* C8: generateBatch with freshStart clears the tracker before it computes
\* remaining: completed and failed are empty then, nothing is skipped and
\* every request of the input is executed in the run.
FreshStartClears ==
  (opts.freshStart /\ InRun) =>
     /\ seen.completed = {}
     /\ \A id \in Ids : seen.attempts[id] = 0
     /\ remaining = images
     /\ results.skipped = 0
     /\ Len(req) = Len(images)
     /\ phase = "returned" => \A i \in 1..Len(req) : req[i].st \in Terminal

FreshStartClearsWitness ==
  /\ opts.freshStart
  /\ phase = "returned"
  /\ "a" \in seen.entryCompleted
  /\ seen.entryAttempts["b"] >= 3
  /\ images = <<"a", "b", "c">>
  /\ \A i \in 1..3 : req[i].st \in Terminal

\* C9: one generateImage call makes at most 4 remote calls (1 + the length of
\* RETRY_DELAYS), and then has returned success or raised a classified error.
ErrorClasses ==
  {"AuthError", "RateLimitError", "ContentSafetyError", "MalformedRequestError",
   "TransientServerError", "TimeoutError", "UnknownGenerationError"}

AtMostFourCalls ==
  \A i \in 1..Len(req) :
    /\ req[i].calls <= 4
    /\ req[i].calls <= Len(RETRY_DELAYS) + 1
    /\ req[i].st = "retrying" => req[i].calls = req[i].attempt
    /\ req[i].st \in {"executing", "resolved", "rejected"} =>
         req[i].calls = req[i].attempt + 1
    /\ req[i].st = "rejected" => req[i].lastError \in ErrorClasses

AtMostFourCallsWitness ==
  \E i \in 1..Len(req) :
    /\ req[i].st = "rejected"
    /\ req[i].calls = 4
    /\ req[i].lastError = "TransientServerError"

\* C10: a failed attempt is followed by another attempt if and only if fewer
\* than 3 retries were made and the error is classified RateLimitError,
\* TransientServerError or TimeoutError.
RetryableClasses == {"RateLimitError", "TransientServerError", "TimeoutError"}

RetryAgreesWithClassifier ==
  \A i \in 1..Len(req) :
    /\ req[i].st = "retrying" => req[i].lastError \in RetryableClasses
    /\ (req[i].st = "rejected" /\ req[i].attempt < 3)
         => req[i].lastError \notin RetryableClasses

----------------------------------------------------------------------------
(* The ProgressTracker as a caller sees it: a tracker constructed on a     *)
(* directory whose progress file may be damaged, then up to MaxCalls calls *)
(* of its methods.  probe records the last call, the tracker state it was  *)
(* made in, what it returned and whether it raised (a TypeError from       *)
(* reading completed/failed of a value that has no such arrays).           *)

DamagedDisks ==
  {[exists |-> TRUE, form |-> f, data |-> EmptyProgress] :
     f \in {"json", "garbage", "unreadable"}}

InitApi ==
  /\ InitFrom(InitialDisks \cup DamagedDisks, TRUE, FALSE)
  /\ probe = NoProbe

Observed(fn, input, output, raised) ==
  [fn |-> fn, input |-> input, output |-> output, raised |-> raised,
   n |-> probe.n + 1, before |-> Tracker]

ApiFrame ==
  UNCHANGED <<fsWritable, cbThrows, phase, images, opts, remaining, collectIdx,
              chunkIndex, req, results, runs, doneBefore, failsBefore, seen,
              imageRefMap, collectorCalls>>

IsCompletedApi(imageId) ==
  /\ probe.n < MaxCalls
  /\ probe' = IF isRecord(progress)
              THEN Observed("isCompleted", imageId, isCompleted(progress, imageId), FALSE)
              ELSE Observed("isCompleted", imageId, "TypeError", TRUE)
  /\ UNCHANGED <<progress, disk, restarts, everCompleted, histFailed>>
  /\ ApiFrame

\* allImages.filter calls isCompleted once per element: none for the empty list
GetRemainingApi(allImages) ==
  /\ probe.n < MaxCalls
  /\ probe' = IF isRecord(progress)
              THEN Observed("getRemaining", allImages,
                            getRemainingDefault(progress, allImages), FALSE)
              ELSE IF allImages = <<>>
                   THEN Observed("getRemaining", allImages, <<>>, FALSE)
                   ELSE Observed("getRemaining", allImages, "TypeError", TRUE)
  /\ UNCHANGED <<progress, disk, restarts, everCompleted, histFailed>>
  /\ ApiFrame

GetFailedAttemptsApi(imageId) ==
  /\ probe.n < MaxCalls
  /\ probe' = IF isRecord(progress)
              THEN Observed("getFailedAttempts", imageId,
                            getFailedAttempts(progress, imageId), FALSE)
              ELSE Observed("getFailedAttempts", imageId, "TypeError", TRUE)
  /\ UNCHANGED <<progress, disk, restarts, everCompleted, histFailed>>
  /\ ApiFrame

GetStatsApi ==
  /\ probe.n < MaxCalls
  /\ probe' = IF isRecord(progress)
              THEN Observed("getStats", "none", getStats(progress), FALSE)
              ELSE Observed("getStats", "none", "TypeError", TRUE)
  /\ UNCHANGED <<progress, disk, restarts, everCompleted, histFailed>>
  /\ ApiFrame

MarkCompletedApi(imageId) ==
  /\ probe.n < MaxCalls
  /\ IF isRecord(progress)
     THEN LET t == markCompleted(Tracker, imageId)
          IN /\ progress' = t.progress
             /\ disk' = t.disk
             /\ everCompleted' = everCompleted \cup {imageId}
             /\ probe' = Observed("markCompleted", imageId, "none", FALSE)
     ELSE /\ probe' = Observed("markCompleted", imageId, "TypeError", TRUE)
          /\ UNCHANGED <<progress, disk, everCompleted>>
  /\ UNCHANGED <<restarts, histFailed>>
  /\ ApiFrame

MarkFailedApi(imageId, error) ==
  /\ probe.n < MaxCalls
  /\ IF isRecord(progress)
     THEN LET t == markFailed(Tracker, imageId, error)
          IN /\ progress' = t.progress
             /\ disk' = t.disk
             /\ histFailed' = [histFailed EXCEPT ![imageId] = @ + 1]
             /\ probe' = Observed("markFailed", <<imageId, error>>, "none", FALSE)
     ELSE /\ probe' = Observed("markFailed", <<imageId, error>>, "TypeError", TRUE)
          /\ UNCHANGED <<progress, disk, histFailed>>
  /\ UNCHANGED <<restarts, everCompleted>>
  /\ ApiFrame

ClearApi ==
  /\ probe.n < MaxCalls
  /\ LET t == clear(Tracker)
     IN /\ progress' = t.progress
        /\ disk' = t.disk
  /\ everCompleted' = {}
  /\ histFailed' = [id \in Ids |-> 0]
  /\ probe' = Observed("clear", "none", "none", FALSE)
  /\ UNCHANGED restarts
  /\ ApiFrame

\* new ProgressTracker(outputDir) on the same directory
ReloadApi ==
  /\ probe.n < MaxCalls
  /\ progress' = load(disk)
  /\ restarts' = restarts + 1
  /\ probe' = Observed("load", "none", "none", FALSE)
  /\ UNCHANGED <<disk, everCompleted, histFailed>>
  /\ ApiFrame

NextApi ==
  \/ \E imageId \in Ids : IsCompletedApi(imageId)
  \/ \E imageId \in Ids : GetFailedAttemptsApi(imageId)
  \/ \E allImages \in {<<>>, <<"a", "b", "c">>} : GetRemainingApi(allImages)
  \/ GetStatsApi
  \/ \E imageId \in Ids : MarkCompletedApi(imageId)
  \/ \E imageId \in Ids, error \in MarkErrors : MarkFailedApi(imageId, error)
  \/ ClearApi
  \/ ReloadApi

SpecApi == InitApi /\ [][NextApi]_vars

----------------------------------------------------------------------------

\* C11 - parseApiError classifies every message by the first rule, in the
\* order auth, rate limit, safety, malformed, server, timeout, that finds one
\* of its keywords in the lower-cased message; a message no rule matches
\* gives the fallback generation error, which carries the message unchanged
\* when it is not empty and "Unknown error occurred" when it is empty.
RuleOrder ==
  <<[class |-> "AuthError", words |-> {"api key", "401", "unauthorized"}],
    [class |-> "RateLimitError", words |-> {"rate limit", "429", "quota"}],
    [class |-> "ContentSafetyError", words |-> {"safety", "blocked", "harmful"}],
    [class |-> "MalformedRequestError", words |-> {"invalid", "400"}],
    [class |-> "TransientServerError", words |-> {"503", "500", "server"}],
    [class |-> "TimeoutError", words |-> {"timeout", "timed out"}]>>

FirstMatch(raw) ==
  LET lowered == {toLowerCase(raw)[i] : i \in 1..Len(raw)}
      hits == {r \in 1..Len(RuleOrder) : RuleOrder[r].words \cap lowered # {}}
  IN IF hits = {} THEN "UnknownGenerationError"
     ELSE RuleOrder[CHOOSE r \in hits : \A q \in hits : r <= q].class

Classified == probe.fn = "parseApiError"

ClassifiedInOrder ==
  Classified =>
    /\ probe.output.class = FirstMatch(probe.input)
    /\ probe.output.class = "UnknownGenerationError" =>
         probe.output.message =
           IF probe.input = <<>> THEN <<"Unknown error occurred">> ELSE probe.input

ClassifiedInOrderWitness ==
  /\ Classified
  /\ probe.input = <<"429", "Unauthorized", "exceeded">>
  /\ probe.output.class = "AuthError"

\* C11 as stated: the fallback error carries every unmatched message
\* unchanged, the empty one included.
FallbackCarriesMessage ==
  (Classified /\ probe.output.class = "UnknownGenerationError") =>
    probe.output.message = probe.input

\* C12 - markCompleted(id) for an id that is already in completed leaves the
\* record and the file as they were, and no id ever occurs twice in completed.
Occurrences(p, id) == Cardinality({i \in 1..Len(p.completed) : p.completed[i] = id})

MarkCompletedIdempotent ==
  /\ (probe.fn = "markCompleted" /\ ~probe.raised
        /\ isCompleted(probe.before.progress, probe.input)) => Tracker = probe.before
  /\ isRecord(progress) => \A id \in Ids : Occurrences(progress, id) <= 1

MarkCompletedIdempotentWitness ==
  /\ probe.fn = "markCompleted"
  /\ probe.input = "c"
  /\ isRecord(probe.before.progress)
  /\ probe.before.progress.completed = <<"a", "c">>
  /\ progress.completed = <<"a", "c">>

\* C13 - getFailedAttempts(id) is the number of markFailed(id, ...) calls
\* since the record was empty, whatever was called for other ids; a
\* markFailed(id, error) call leaves error as the lastError of id and no
\* other call changes it.
LastErrorOf(p, id) ==
  IF findFailed(p, id) = 0 THEN "none" ELSE p.failed[findFailed(p, id)].lastError

Reads == {"isCompleted", "getRemaining", "getStats", "markCompleted"}

FailuresCounted ==
  isRecord(progress) =>
    /\ \A id \in Ids : getFailedAttempts(progress, id) = histFailed[id]
    /\ (probe.fn = "markFailed" /\ ~probe.raised) =>
         /\ LastErrorOf(progress, probe.input[1]) = probe.input[2]
         /\ \A id \in Ids \ {probe.input[1]} :
              LastErrorOf(progress, id) = LastErrorOf(probe.before.progress, id)
    /\ (probe.fn \in Reads /\ ~probe.raised) =>
         \A id \in Ids : LastErrorOf(progress, id) = LastErrorOf(probe.before.progress, id)

FailuresCountedWitness ==
  /\ probe.fn = "markFailed"
  /\ probe.n = 4
  /\ probe.input = <<"b", "AuthError">>
  /\ LastErrorOf(probe.before.progress, "b") = "TimeoutError"
  /\ getFailedAttempts(progress, "b") = 2
  /\ getFailedAttempts(progress, "c") = 1
  /\ isCompleted(progress, "b")

\* C14 - no call other than clear lowers the failed attempts of an id: not
\* markFailed, not markCompleted, not constructing a new tracker on the
\* directory.
AttemptsKept ==
  (probe.fn \notin {"none", "clear"} /\ isRecord(probe.before.progress)) =>
    /\ isRecord(progress)
    /\ \A id \in Ids :
         getFailedAttempts(progress, id) >= getFailedAttempts(probe.before.progress, id)

AttemptsKeptWitness ==
  /\ probe.fn = "load"
  /\ probe.n = 4
  /\ isRecord(probe.before.progress)
  /\ getFailedAttempts(probe.before.progress, "c") = 2
  /\ getFailedAttempts(progress, "c") = 2
  /\ isCompleted(progress, "c")

\* C15 - whatever the progress file holds, no call made on the constructed
\* tracker raises.
NoCallRaises == ~probe.raised

\* C16 - when every write of the progress file fails, the file stays as it
\* was (or is removed by a fresh start), a request whose generation succeeded is recorded as succeeded and is
\* in completed in memory, a failed one has one more attempt in memory, and
\* the summary generateBatch returns lists each request under its outcome.
RecordedInMemory ==
  \A i \in 1..Len(req) :
    /\ req[i].st = "succeeded" => isCompleted(progress, remaining[i])
    /\ req[i].st = "failed" =>
         getFailedAttempts(progress, remaining[i]) = seen.attempts[remaining[i]] + 1
    /\ req[i].st # "crashed"

SummaryTrue ==
  phase = "returned" =>
    /\ Range(results.successful) =
         {remaining[i] : i \in {j \in 1..Len(req) : req[j].st = "succeeded"}}
    /\ {results.failed[k].imageId : k \in 1..Len(results.failed)} =
         {remaining[i] : i \in {j \in 1..Len(req) : req[j].st = "failed"}}
    /\ Len(results.successful) + Len(results.failed) = Len(remaining)

WriteFailureStep ==
  /\ disk' \in {disk, NoFile}
  /\ phase' # "raised"
  /\ \A i \in 1..Len(req) :
       (req[i].st = "resolved" /\ Len(req') = Len(req) /\ req'[i].st # "resolved")
         => req'[i].st = "succeeded"
  /\ RecordedInMemory'
  /\ SummaryTrue'

WriteFailureHarmless == [][WriteFailureStep]_vars

WriteFailureHarmlessWitness ==
  /\ ~fsWritable
  /\ phase = "returned"
  /\ ~disk.exists
  /\ results.successful = <<"a", "c">>
  /\ Len(results.failed) = 1
  /\ progress.completed = <<"a", "c">>
  /\ getFailedAttempts(progress, "b") = 1

\* C17 - with a collector, getReferenceImages is called once for each
\* remaining request, in request order, the next call only after the one
\* before has returned, never for a skipped request, and all of them before
\* the first remote call; each request is executed with the references
\* collected for its own id (none when there is no collector).
CalledUpTo(k) ==
  \A j \in 1..Len(remaining) :
    /\ collectorCalls[remaining[j]] = IF j <= k THEN 1 ELSE 0
    /\ imageRefMap[remaining[j]].set = (j < k)

CollectedFirst ==
  InRun =>
    /\ \A id \in Ids \ Range(remaining) :
         collectorCalls[id] = 0 /\ ~imageRefMap[id].set
    /\ phase = "collecting" =>
         /\ opts.collector
         /\ collectIdx \in 1..Len(remaining)
         /\ CalledUpTo(collectIdx)
         /\ \A i \in 1..Len(req) : req[i].st = "pending" /\ req[i].calls = 0
    /\ phase # "collecting" =>
         IF opts.collector THEN CalledUpTo(Len(remaining) + 1)
         ELSE \A id \in Ids : collectorCalls[id] = 0
    /\ \A i \in 1..Len(req) :
         req[i].st # "pending" =>
           req[i].refs = IF opts.collector THEN RefsOf(remaining[i]) ELSE <<>>

CollectedFirstWitness ==
  /\ phase = "running"
  /\ opts.collector
  /\ remaining = <<"c">>
  /\ collectorCalls = [NoCalls EXCEPT !["c"] = 1]
  /\ req[1].st = "executing"
  /\ req[1].refs = <<"c">>

\* C18 - skipped is the number of input requests whose id was completed or
\* had at least 3 failed attempts when remaining was computed (after the
\* clear of a fresh start), and it keeps that value whatever the requests of
\* the run end with.
SkippedAtStart ==
  Cardinality({i \in 1..Len(images) :
                 images[i] \in seen.completed \/ seen.attempts[images[i]] >= 3})

SkippedFixed == InRun => results.skipped = SkippedAtStart

SkippedFixedWitness ==
  /\ phase = "returned"
  /\ ~opts.freshStart
  /\ results.skipped = 2
  /\ seen.completed = {"a"}
  /\ results.failed # <<>>
  /\ getFailedAttempts(progress, "c") = 1

\* C19 - called on a record that is empty, with every remote call answered
\* by an image, generateBatch returns all n requests in successful, none in
\* failed and skipped 0, and leaves exactly their ids in completed and no
\* failure record, for every concurrency.
StartedEmpty == seen.completed = {} /\ \A id \in Ids : seen.attempts[id] = 0

AllSucceed ==
  (phase = "returned" /\ StartedEmpty) =>
    /\ Len(results.successful) = Len(images)
    /\ Range(results.successful) = Range(images)
    /\ results.failed = <<>>
    /\ results.skipped = 0
    /\ Len(progress.completed) = Len(images)
    /\ Range(progress.completed) = Range(images)
    /\ progress.failed = <<>>

AllSucceedWitness ==
  /\ phase = "returned"
  /\ StartedEmpty
  /\ images = <<"a", "b", "c">>
  /\ opts.concurrency = 2
  /\ Len(results.successful) = 3
  /\ progress.completed = <<"b", "a", "c">>

\* C20 - right after clear() the record is the empty one and the file is gone:
\* getStats counts 0 and 0, getRemaining gives back every list whole, and a
\* tracker constructed on the directory loads the empty record.
Cleared ==
  probe.fn = "clear" =>
    /\ progress = EmptyProgress
    /\ ~disk.exists
    /\ getStats(progress).completed = 0
    /\ getStats(progress).failed = 0
    /\ \A list \in RequestLists : getRemainingDefault(progress, list) = list
    /\ load(disk) = EmptyProgress

ClearedWitness ==
  /\ probe.fn = "clear"
  /\ probe.before.disk.exists
  /\ probe.before.disk.form = "record"
  /\ probe.before.progress = PriorProgress
  /\ getStats(progress).completed = 0

\* C21 - normalizeAspectRatio returns its input without its whitespace when
\* that is one of the 10 supported ratios and 16:9 otherwise; the result is
\* always a supported ratio and normalizing it again gives it back.
SupportedRatios == {supported[i] : i \in 1..Len(supported)}

RECURSIVE Squeezed(_)
Squeezed(str) ==
  IF str = <<>> THEN <<>>
  ELSE IF Head(str) \in {" ", "\t"} THEN Squeezed(Tail(str))
  ELSE <<Head(str)>> \o Squeezed(Tail(str))

Normalized ==
  probe.fn = "normalizeAspectRatio" =>
    /\ Cardinality(SupportedRatios) = 10
    /\ probe.output =
         IF Squeezed(probe.input) \in SupportedRatios THEN Squeezed(probe.input)
         ELSE <<"1", "6", ":", "9">>
    /\ probe.output \in SupportedRatios
    /\ normalizeAspectRatio(probe.output) = probe.output

NormalizedWitness ==
  /\ probe.fn = "normalizeAspectRatio"
  /\ probe.input = <<"4", "\t", ":", "3", " ">>
  /\ probe.output = <<"4", ":", "3">>

\* C22 - formatStyleGuide gives the same text for a style guide and for the
\* guide wrapped in a style_guide field, the empty string for an empty
\* guide, and a section exactly for the fields that have content.
Unwrapped(arg) == IF "style_guide" \in DOMAIN arg THEN arg.style_guide ELSE arg

HasContent(sg, field) ==
  /\ field \in DOMAIN sg
  /\ IF field = "palette"
     THEN \E part \in DOMAIN sg.palette : sg.palette[part] # <<>>
     ELSE IF field = "ui_style"
     THEN \E part \in DOMAIN sg.ui_style : sg.ui_style[part] # ""
     ELSE sg[field] # <<>>

SectionTitle ==
  [brand_keywords |-> "Style Keywords: ", palette |-> "Color Palette:\n",
   ui_style |-> "UI Style:\n", typography_feel |-> "Typography: ",
   visual_motifs |-> "Visual Motifs: ", avoid |-> "AVOID: "]

WrapperTransparent ==
  probe.fn = "formatStyleGuide" =>
    LET sg == Unwrapped(probe.input)
    IN /\ probe.output = formatStyleGuide(sg)
       /\ probe.output = formatStyleGuide([style_guide |-> sg])
       /\ DOMAIN sg = {} => probe.output = <<>>
       /\ \A field \in GuideFields :
            HasContent(sg, field) <=> SectionTitle[field] \in Range(probe.output)

WrapperTransparentWitness ==
  /\ probe.fn = "formatStyleGuide"
  /\ "style_guide" \in DOMAIN probe.input
  /\ DOMAIN probe.input.style_guide = {"brand_keywords", "palette", "avoid"}
  /\ probe.output = <<"Style Keywords: ", "bold", ", ", "calm", "\n\n", "AVOID: ", "clutter">>

\* C23 - a request of a later group has not started generateImage while a
\* request of an earlier group is without a terminal outcome recorded in
\* memory and in the file: a retrying request holds back every later group.
GroupOf(i) == ((i - 1) \div opts.concurrency) + 1

OutcomeRecorded(i) ==
  LET id == remaining[i]
  IN \/ /\ req[i].st = "succeeded"
        /\ isCompleted(progress, id)
        /\ isCompleted(load(disk), id)
     \/ /\ req[i].st = "failed"
        /\ getFailedAttempts(progress, id) = seen.attempts[id] + 1
        /\ getFailedAttempts(load(disk), id) = seen.attempts[id] + 1

GroupsInOrder ==
  InRun =>
    \A i \in 1..Len(req) :
      req[i].st # "pending" =>
        /\ GroupOf(i) <= chunkIndex
        /\ \A j \in 1..Len(req) : GroupOf(j) < GroupOf(i) => OutcomeRecorded(j)

GroupsInOrderWitness ==
  /\ phase = "running"
  /\ opts.concurrency = 2
  /\ Len(req) = 3
  /\ req[1].st = "retrying"
  /\ req[1].attempt = 2
  /\ req[2].st = "succeeded"
  /\ req[3].st = "pending"

\* C24 - no write of one request's outcome loses what the file held for
\* another: within a run the file never drops a completed id, never lowers
\* an id's attempts, and holds the outcome of every request that has reached
\* its terminal outcome, whatever the order in which the requests of a group
\* settle.
InFile(i) ==
  LET id == remaining[i]
      file == load(disk)
  IN /\ req[i].st = "succeeded" => isCompleted(file, id)
     /\ req[i].st = "failed" =>
          /\ getFailedAttempts(file, id) = seen.attempts[id] + 1
          /\ LastErrorOf(file, id) = req[i].lastError

NoLostUpdateStep ==
  runs' = runs =>
    /\ \A id \in Ids :
         /\ isCompleted(load(disk), id) => isCompleted(load(disk'), id)
         /\ getFailedAttempts(load(disk'), id) >= getFailedAttempts(load(disk), id)
    /\ (\A i \in 1..Len(req) : InFile(i))'

NoLostUpdate == [][NoLostUpdateStep]_vars

NoLostUpdateWitness ==
  /\ phase = "running"
  /\ opts.concurrency = 2
  /\ chunkIndex = 1
  /\ Len(req) = 3
  /\ req[1].st = "failed"
  /\ req[2].st = "failed"
  /\ req[1].lastError # req[2].lastError
  /\ InFile(1)
  /\ InFile(2)

\* C25 - on an empty record, with every remote call for b failing with
\* "503 server error" and the others succeeding, generateBatch over a, b, c
\* gives up on b after 4 remote calls and returns a and c in successful and b
\* in failed with the server error; the record then has one failed attempt
\* for b, the retries inside the run not being counted.
OutageRunEnded == phase = "returned" /\ StartedEmpty /\ images = <<"a", "b", "c">>

BudgetSpent ==
  \A i \in 1..Len(req) :
    /\ req[i].st = "rejected" => remaining[i] = "b" /\ req[i].calls = 4
    /\ (req[i].st \in InFlightStates /\ remaining[i] # "b") => req[i].calls = 1

OutageSummary ==
  /\ BudgetSpent
  /\ OutageRunEnded =>
       /\ results.successful = <<"a", "c">>
       /\ results.failed = <<[imageId |-> "b", error |-> "TransientServerError"]>>
       /\ progress.failed = <<[id |-> "b", attempts |-> 1,
                               lastError |-> "TransientServerError"]>>
       /\ Range(progress.completed) = {"a", "c"}
       /\ load(disk) = progress

OutageSummaryWitness ==
  /\ OutageRunEnded
  /\ runs = 1
  /\ opts.concurrency = 2
  /\ getFailedAttempts(progress, "b") = 1
  /\ progress.completed = <<"a", "c">>

\* C25 as stated: the record shows attempts = 4 for b.
OutageCountsRetries == OutageRunEnded => getFailedAttempts(progress, "b") = 4

\* C26 - in a run each remaining request gets one terminal outcome: one
\* markFailed and no markCompleted when it fails, one markCompleted and no
\* markFailed when it succeeds, neither before that, however often it was
\* retried; its attempts are 1 more than at the start of the run exactly
\* when it has failed.
MarkedFailedInRun(id) == histFailed[id] - failsBefore[id]

MarkedCompletedInRun(id) == id \in everCompleted \ doneBefore

OneOutcomePerRun ==
  InRun =>
    /\ \A id \in Ids \ Range(remaining) :
         MarkedFailedInRun(id) = 0 /\ ~MarkedCompletedInRun(id)
    /\ \A i \in 1..Len(req) :
         LET id == remaining[i]
             grown == getFailedAttempts(progress, id) - seen.attempts[id]
         IN CASE req[i].st = "failed" ->
                   MarkedFailedInRun(id) = 1 /\ ~MarkedCompletedInRun(id) /\ grown = 1
              [] req[i].st = "succeeded" ->
                   MarkedFailedInRun(id) = 0 /\ MarkedCompletedInRun(id) /\ grown = 0
              [] OTHER ->
                   MarkedFailedInRun(id) = 0 /\ ~MarkedCompletedInRun(id) /\ grown = 0

OneOutcomePerRunWitness ==
  /\ phase = "returned"
  /\ runs = 2
  /\ seen.attempts["b"] = 1
  /\ getFailedAttempts(progress, "b") = 2
  /\ \E k \in 1..Len(results.failed) :
       results.failed[k] = [imageId |-> "b", error |-> "TransientServerError"]

\* C27 - over runs without fresh start or clear a request is executed only in
\* runs that start with fewer than 3 failed attempts recorded for it; once it
\* has 3 it is left out of remaining and counted in skipped, so it gets at
\* most 12 remote calls in all.
ExecutedInRun(i) == req[i].st # "pending"

BudgetOverRuns ==
  /\ probe.fn = "remoteCalls" => probe.n <= 12
  /\ \A id \in Ids : getFailedAttempts(progress, id) <= 3
  /\ InRun =>
       /\ \A i \in 1..Len(req) : ExecutedInRun(i) => seen.attempts[remaining[i]] < 3
       /\ \A k \in 1..Len(images) :
            seen.attempts[images[k]] >= 3 =>
              images[k] \notin Range(remaining) /\ results.skipped >= 1

BudgetOverRunsWitness ==
  /\ probe.fn = "remoteCalls"
  /\ probe.n = 12
  /\ runs = 4
  /\ phase = "returned"
  /\ seen.attempts["b"] = 3
  /\ "b" \notin Range(remaining)
  /\ results.skipped >= 1

\* C28 - a text-only response with "cannot" or "sorry" ends the request
\* after that one remote call with a ContentSafetyError, and any other
\* text-only response ends it with the generic generation error.
TextOnlyTerminal ==
  \A i \in 1..Len(req) :
    /\ remaining[i] \in {"a", "b"} => req[i].st # "retrying" /\ req[i].calls <= 1
    /\ (remaining[i] = "a" /\ req[i].st \in {"rejected", "failed"}) =>
         req[i].lastError = "ContentSafetyError"
    /\ (remaining[i] = "b" /\ req[i].st \in {"rejected", "failed"}) =>
         req[i].lastError = "UnknownGenerationError"

\* C29 - the artifact file of a request is written exactly once in a run that
\* reports the request successful and never in a run that reports it failed;
\* no attempt that failed or is being retried has written it.
WrittenBy(id) ==
  LET at == {i \in 1..Len(req) : remaining[i] = id}
  IN IF at = {} THEN 0 ELSE req[CHOOSE i \in at : TRUE].written

ArtifactOnce ==
  /\ \A i \in 1..Len(req) :
       /\ req[i].st \in {"retrying", "rejected", "failed"} => req[i].written = 0
       /\ req[i].st \in {"resolved", "succeeded"} => req[i].written = 1
  /\ phase = "returned" =>
       /\ \A k \in 1..Len(results.successful) : WrittenBy(results.successful[k]) = 1
       /\ \A k \in 1..Len(results.failed) : WrittenBy(results.failed[k].imageId) = 0

\* a run that returned with b successful (one file) and a failed (no file)
ArtifactOnceWitness ==
  /\ phase = "returned"
  /\ "b" \in Range(results.successful)
  /\ \E k \in 1..Len(results.failed) : results.failed[k].imageId = "a"
  /\ histFailed["a"] >= 1
  /\ WrittenBy("b") = 1
  /\ WrittenBy("a") = 0

\* C30 - the first attempt of generateImage is made without delay or
\* notification; retry k (1..3) is preceded by exactly one notification naming
\* k and by a sleep of RETRY_DELAYS[k-1], the delays being 1, 2 and 4 seconds,
\* each double the previous; the remote call of retry k is issued only when
\* its sleep has ended.
Doubling(delays) ==
  \A j \in 1..Len(delays) :
    delays[j] = IF j = 1 THEN 1000 ELSE 2 * delays[j - 1]

BackoffKept ==
  \A i \in 1..Len(req) :
    req[i].st \in InFlightStates =>
      LET k == req[i].attempt
          done == IF req[i].st = "retrying" THEN k - 1 ELSE k
      IN /\ k <= 3
         /\ req[i].notified = [j \in 1..k |-> j]
         /\ Len(req[i].slept) = done
         /\ Doubling(req[i].slept)
         /\ req[i].calls = done + 1

\* a request at its third retry: three notifications, the sleeps of 1, 2 and
\* 4 seconds over, the fourth remote call issued
BackoffKeptWitness ==
  \E i \in 1..Len(req) :
    /\ req[i].st = "executing"
    /\ req[i].attempt = 3
    /\ req[i].notified = <<1, 2, 3>>
    /\ req[i].slept = <<1000, 2000, 4000>>
    /\ req[i].calls = 4

\* C31 - for every list and every size >= 1 chunkArray returns contiguous
\* groups whose concatenation is the list in its order; every group has
\* between 1 and size elements, every group but the last exactly size, and
\* the empty list gives no group.
RECURSIVE Flatten(_)
Flatten(groups) ==
  IF groups = <<>> THEN <<>> ELSE Head(groups) \o Flatten(Tail(groups))

Partitioned ==
  probe.fn = "chunkArray" =>
    LET array == probe.input.array
        size == probe.input.size
        groups == probe.output
    IN /\ Flatten(groups) = array
       /\ \A k \in 1..Len(groups) :
            /\ Len(groups[k]) \in 1..size
            /\ k < Len(groups) => Len(groups[k]) = size
       /\ array = <<>> => groups = <<>>

\* four elements in groups of three: a full group and a last group of one
PartitionedWitness ==
  /\ probe.fn = "chunkArray"
  /\ probe.input = [array |-> <<"a", "b", "c", "a">>, size |-> 3]
  /\ probe.output = << <<"a", "b", "c">>, <<"a">> >>

\* C32 - the successful list and the failed list of the summary are each in
\* the relative order of the input requests, whatever the order in which the
\* requests of a group finish; the completed list of the progress record
\* follows the order of completion.
PositionIn(list, id) == CHOOSE i \in 1..Len(list) : list[i] = id

InInputOrder(ids) ==
  \A j, k \in 1..Len(ids) :
    j < k => /\ ids[j] \in Range(images)
             /\ ids[k] \in Range(images)
             /\ PositionIn(images, ids[j]) < PositionIn(images, ids[k])

FailedIds == [k \in 1..Len(results.failed) |-> results.failed[k].imageId]

SummaryInInputOrder ==
  InRun => InInputOrder(results.successful) /\ InInputOrder(FailedIds)

\* b finished before a in the first group: completed has b first, the
\* summary has a first
SummaryInInputOrderWitness ==
  /\ phase = "returned"
  /\ results.successful = <<"a", "b">>
  /\ isRecord(progress)
  /\ progress.completed = <<"b", "a">>

\* C33 - with concurrency >= 1 and a remote service and a collector that
\* always answer, generateBatch eventually returns; in a run every remaining
\* request goes pending -> executing -> (retrying -> executing)* -> succeeded
\* or failed, and when the run returns each one is in exactly one terminal
\* state, which it never leaves.
Transitions ==
  { <<"pending", "executing">>, <<"executing", "retrying">>,
    <<"retrying", "executing">>, <<"executing", "resolved">>,
    <<"executing", "rejected">>, <<"resolved", "succeeded">>,
    <<"rejected", "failed">> }

LifecycleStep ==
  (runs' = runs /\ Len(req') = Len(req)) =>
    \A i \in 1..Len(req) :
      req'[i].st = req[i].st \/ <<req[i].st, req'[i].st>> \in Transitions

AllTerminal == \A i \in 1..Len(req) : req[i].st \in Terminal

PartitionHangs ==
  (runs >= 1 /\ opts.concurrency < 1 /\ remaining # <<>>) =>
    /\ phase = "partitioning"
    /\ probe.n < Len(probe.input.array)
    /\ \A i \in 1..Len(req) : req[i].st = "pending"

\* concurrency 0: the loop has pushed empty groups and i is still 0
PartitionHangsWitness ==
  /\ phase = "partitioning"
  /\ opts.concurrency = 0
  /\ remaining # <<>>
  /\ Len(probe.output) >= 3
  /\ probe.output[1] = <<>>
  /\ probe.n = 0

\* The loop taken step by step returns what chunkArray returns.
LoopAgrees ==
  (probe.fn = "chunkArray" /\ phase \in {"running", "returned"}) =>
    probe.output = Chunks(remaining, opts.concurrency)

\* C35 - whenever generateBatch returns (concurrency >= 1), successful.length
\* + failed.length + skipped is the number of input requests, and no request
\* is in both lists or twice in one.
NoRepeats(ids) == \A j, k \in 1..Len(ids) : ids[j] = ids[k] => j = k

SummaryAccounts ==
  phase = "returned" =>
    /\ Len(results.successful) + Len(results.failed) + results.skipped = Len(images)
    /\ Range(results.successful) \cap Range(FailedIds) = {}
    /\ NoRepeats(results.successful)
    /\ NoRepeats(FailedIds)

\* one request skipped, one successful, one failed
SummaryAccountsWitness ==
  /\ phase = "returned"
  /\ results.skipped = 1
  /\ Len(results.successful) = 1
  /\ Len(results.failed) = 1
  /\ Len(images) = 3

\* C36 - when generateBatch returns, whatever the callbacks do, each id of
\* successful is in completed and was not marked failed in this run, and
\* each id of failed has a failure record with the reported error as
\* lastError and was not marked completed in this run.
SummaryMatchesStore ==
  phase = "returned" =>
    /\ \A k \in 1..Len(results.successful) :
         LET id == results.successful[k]
         IN isCompleted(progress, id) /\ MarkedFailedInRun(id) = 0
    /\ \A k \in 1..Len(results.failed) :
         LET id == results.failed[k].imageId
         IN /\ LastErrorOf(progress, id) = results.failed[k].error
            /\ ~MarkedCompletedInRun(id)

\* C37 - in every reachable state of the progress record no id is both in
\* completed and in failed: a request that failed in an earlier run and
\* succeeds later has no failure record left, so getStats().failed counts
\* only requests that have not completed.
CompletedNotFailed ==
  isRecord(progress) =>
    /\ \A id \in Ids : ~(isCompleted(progress, id) /\ findFailed(progress, id) # 0)
    /\ getStats(progress).failed =
         Cardinality({id \in Ids : findFailed(progress, id) # 0
                                     /\ ~isCompleted(progress, id)})

\* C38 - with two ProgressTracker instances on one output directory, after
\* any interleaving of their calls the file reflects the calls of both: a
\* clear() through one is not undone by the next save of the other, and an
\* outcome saved through one is not lost when the other saves.
FileReflectsBoth ==
  LET file == load(disk)
  IN /\ Range(file.completed) = everCompleted
     /\ \A id \in Ids : getFailedAttempts(file, id) = histFailed[id]

\* C39 - only failures of the remote call are retried: an error raised while
\* validating a successful response (missing parts, text only, no image
\* data) ends the request after that attempt, with no further remote call,
\* whatever text the response has.  (In SpecText every remote call succeeds.)
NoRetryAfterResponse ==
  \A i \in 1..Len(req) : req[i].st # "retrying" /\ req[i].calls <= 1

\* C40 - isCompleted, getFailedAttempts, getRemaining and getStats are
\* read-only: they leave the in-memory record (completed, failed,
\* startedAt), the file and the input list as they were; markCompleted and
\* markFailed never change startedAt.
ReadCalls == {"isCompleted", "getFailedAttempts", "getRemaining", "getStats"}

ReadsChangeNothing ==
  /\ probe.fn \in ReadCalls => Tracker = probe.before
  /\ (probe.fn = "getRemaining" /\ ~probe.raised) =>
       /\ probe.input \in {<<>>, <<"a", "b", "c">>}
       /\ Range(probe.output) \subseteq Range(probe.input)
  /\ (probe.fn \in {"markCompleted", "markFailed"} /\ ~probe.raised) =>
       /\ progress.startedAt = probe.before.progress.startedAt
       /\ load(disk).startedAt = progress.startedAt

\* getStats after a markCompleted on the record of earlier runs: two
\* completed ids, the old startedAt, record and file as before the call
ReadsChangeNothingWitness ==
  /\ probe.fn = "getStats"
  /\ ~probe.raised
  /\ probe.output = [completed |-> 2, failed |-> 1, startedAt |-> "earlier"]
  /\ Tracker = probe.before
  /\ load(disk) = progress

============================================================================
